---- MODULE Spec2Model ----
(***************************************************************************)
(* WindowsWhisper (desktop/src-tauri): the capture engine (audio.rs) and   *)
(* the chunking orchestration (lib.rs).                                    *)
(*                                                                         *)
(* SpecCapture: one AudioRecorder driven by a caller that issues           *)
(*   start_recording / drain_chunk / stop_recording in any order, the      *)
(*   capture thread it spawns and the audio callback.                      *)
(* Spec: the orchestration of lib.rs (hotkey and Escape handlers, timer    *)
(*   and consumer tasks) on top of the same recorder.                      *)
(*                                                                         *)
(* A sample is represented by its arrival number (1, 2, 3, ...): the i16   *)
(* value the callback pushes is replaced by the position of the frame in   *)
(* the stream the device delivered, so that chunks can be compared with    *)
(* the stream.                                                             *)
(***************************************************************************)
EXTENDS Integers, Sequences, FiniteSets, TLC

\* ------------------------------------------------------------------ bounds
MaxSamples == 5          \* frames the device delivers in one run of the model
MaxSessionSamples == 2   \* the same in one run of Spec
MaxBlock == 2            \* frames delivered by one callback invocation
MaxThreads == 2          \* capture threads spawned in one run of the model
MaxOverlapSeconds == 2   \* chunk_overlap_seconds passed by the SpecCapture caller
MaxHotkeys == 2          \* presses of the configured hotkey in one run
MaxEscapes == 1          \* presses of Escape in one run
MaxMergeWords == 3       \* words in a short text handed to merge_with_overlap
MaxRepeated == 14        \* words in a text that repeats one word
MaxFragments == 3        \* fragments handed to consolidate_chunk_texts
MaxFragmentWords == 5    \* words in one of them
MaxWindowStart == 4      \* the letter its first word may be
MaxCollapseWords == 6    \* words in a short text handed to a function of one text
MaxPhraseWords == 9      \* words in a phrase that is said more than once
MaxSaid == 3             \* times it is said
MaxCapitalizeChars == 4  \* chars in a text handed to capitalize_sentences
MaxPostWords == 3        \* words in a text handed to apply_postprocessing
MaxResampleLen == 10     \* samples in a slice handed to resample
SampleRates == {1, 2, 16000, 48000}   \* native rates the device may report
OrchRate == 1            \* the native rate of the device Spec runs on
StartupFailures == {"no_device", "config_err", "unsupported_format",
                    "build_err", "play_err"}

\* ------------------------------------------------------- program constants
TARGET_RATE == 16000           \* audio.rs:181-187
CHUNK_OVERLAP_SECONDS == 1     \* lib.rs:58
CHUNK_QUEUE_CAPACITY == 4      \* lib.rs:539
CHUNK_TRIM_WORDS == 3          \* lib.rs:59
CHUNK_MAX_OVERLAP_WORDS == 12  \* lib.rs:60
CHUNK_MAX_REPEAT_PHRASE_WORDS == 4   \* lib.rs:61
max_phrase_len == 8            \* postprocessing.rs:132

VARIABLES
    \* --- the machine's default input device (cpal), fixed for one run
    device,                 \* [status, rate]
    \* --- AudioRecorder (audio.rs:11-14)
    command_tx,             \* 0 = None, g = Some(sender to capture thread g)
    rec_is_recording,       \* AudioRecorder.is_recording (shared AtomicBool)
    \* --- the capture thread spawned by start_recording (audio.rs:50-201)
    th_gen,                 \* number of capture threads spawned so far
    th_pc,                  \* "none" | "starting" | "running" | "exited"
    th_exit,                \* why the thread exited ("" while it has not)
    chunk_overlap_seconds,  \* the argument captured by the thread closure
    sample_rate,            \* config.sample_rate().0
    overlap_samples,        \* audio.rs:152
    last_chunk_index,       \* audio.rs:153
    samples,                \* the Arc<Mutex<Vec<i16>>> buffer
    cmd_rx,                 \* commands sent and not yet received
    reply,                  \* what the handler sent on the pending reply channel
    rec_call,               \* who holds the recorder waiting for a reply
    \* --- history of the capture session (not program state)
    appended,               \* frames delivered so far (the last arrival number)
    th_base,                \* value of appended when the current thread was spawned
    since_append,           \* drain commands handled since the last append or
                            \* since the session began, counted up to 2
    chunk_log,              \* the successful drains of the current session
    early_ok,               \* start_recording has returned early as already recording
    \* --- the mutex of the buffer and the two threads that take it
    buffer_lock,            \* "free", or who holds it: "callback" | "handler"
    cb_pc,                  \* the input callback: "idle" | "lock" | "push" | "level"
    cb_frames,              \* the frames its data slice holds (0 while idle)
    h_pc,                   \* the DrainChunk handler: "recv" | "window" |
                            \* "no_audio" | "drop" | "encode"
    h_chunk,                \* its chunk_samples (NoChunk outside a drain)
    \* --- the caller of SpecCapture
    client_result,          \* the Result its last call returned
    \* --- the caller of SpecText
    text_in,                \* the fragments and settings it passes
    text_fn,                \* the function it called last ("none": none yet)
    text_ret,               \* the String that call returned
    \* --- AppState (lib.rs:36-42)
    recorder,               \* state.recorder is Some
    is_recording,           \* state.is_recording
    has_api,                \* settings.api_url and settings.api_key are both non-empty
    chunk_texts,            \* state.chunk_texts
    chunk_control,          \* 0 = None, s = Some(the ChunkControl of session s)
    escape_registered,      \* the Escape shortcut is registered
    \* --- spawned handle_hotkey_press tasks (lib.rs:408-683)
    hk_pc,                  \* where each handler is
    hk_val,                 \* its is_recording_val
    hk_has_api,             \* its has_api
    hk_ctl,                 \* the ChunkControl it took (stop path); 0 = None
    hk_final,               \* its final_chunk
    hk_texts,               \* the chunk_texts it collected
    \* --- spawned cancel_recording tasks (lib.rs:385-406)
    cn_pc,
    cn_ctl,
    \* --- the sessions: session s is the one created by hotkey handler s
    ctl,                    \* the ChunkControl of s: "unborn", "building" (held in
                            \* the locals of the start path), "stored", "taken",
                            \* "joined" (torn down by a stop or cancel path) or
                            \* "dropped" (overwritten or replaced by None)
    stop_val,               \* value of the watch channel of s
    ctl_tx,                 \* control.chunk_tx of s has not been dropped
    chunk_q,                \* the mpsc channel of s
    timer_pc,               \* the timer task of s
    timer_chunk,            \* the chunk it is sending
    worker_pc,              \* the consumer task of s
    worker_chunk,           \* the chunk it is transcribing
    \* --- history of the sessions (not program state)
    hk_spawned,             \* the capture thread the handler's start_recording spawned
    drained,                \* per session: chunks drained for it (timer or stop path)
    received,               \* per session: chunks its consumer received
    flag_session,           \* the start path whose write is_recording holds (0: none)
    hk_session              \* the session the handler's read of the flag found active

capVars == <<device, command_tx, rec_is_recording, th_gen, th_pc, th_exit,
             chunk_overlap_seconds, sample_rate, overlap_samples,
             last_chunk_index, samples, cmd_rx, reply, rec_call,
             appended, th_base, since_append, chunk_log, early_ok>>

appVars == <<recorder, is_recording, has_api, chunk_texts, chunk_control,
             escape_registered>>

hkVars == <<hk_pc, hk_val, hk_has_api, hk_ctl, hk_final, hk_texts>>

cnVars == <<cn_pc, cn_ctl>>

sessVars == <<ctl, stop_val, ctl_tx, chunk_q, timer_pc, timer_chunk,
              worker_pc, worker_chunk>>

histVars == <<hk_spawned, drained, received, flag_session, hk_session>>

orchVars == <<appVars, hkVars, cnVars, sessVars, histVars>>

textVars == <<text_in, text_fn, text_ret>>

lockVars == <<buffer_lock, cb_pc, cb_frames, h_pc, h_chunk>>

vars == <<capVars, client_result, textVars, lockVars, orchVars>>

\* ----------------------------------------------------------------- helpers
Min(a, b) == IF a < b THEN a ELSE b

Range(s) == {s[i] : i \in 1..Len(s)}

\* usize::saturating_sub
saturating_sub(a, b) == IF a > b THEN a - b ELSE 0

\* buffer[from..to] with 0-based, end-exclusive Rust indices
Slice(s, from, to) == SubSeq(s, from + 1, to)

NoChunk == [src |-> <<>>, rate |-> 0]
NoReply == [op |-> "none", ok |-> FALSE, err |-> "", chunk |-> NoChunk]
NoCall == [who |-> <<"nobody", 0>>, op |-> "none"]

OkReply(op, chunk) == [op |-> op, ok |-> TRUE, err |-> "", chunk |-> chunk]
ErrReply(op, e) == [op |-> op, ok |-> FALSE, err |-> e, chunk |-> NoChunk]

\* ------------------------------------------------- resample and encode_wav
\* A resample that computes one output sample too few.
resample_OneShort(s, from_rate, to_rate) ==
    LET new_len == saturating_sub((Len(s) * to_rate) \div from_rate, 1)
        idx == [i \in 0..(new_len - 1) |-> (i * from_rate) \div to_rate]
        kept == {i \in 0..(new_len - 1) : idx[i] < Len(s)}
    IN  [k \in 1..Cardinality(kept) |-> s[idx[k - 1] + 1]]

\* resample (audio.rs:239-251), with the f64 quotients taken exactly.
resample(s, from_rate, to_rate) ==
    LET new_len == (Len(s) * to_rate) \div from_rate
        idx == [i \in 0..(new_len - 1) |-> (i * from_rate) \div to_rate]
        kept == {i \in 0..(new_len - 1) : idx[i] < Len(s)}
    IN  [k \in 1..Cardinality(kept) |-> s[idx[k - 1] + 1]]

\* The samples a drained chunk encodes (audio.rs:181-187): the chunk keeps the
\* drained slice and the native rate, and is resampled when it is read.
WavSamples(chunk) ==
    IF chunk.rate # TARGET_RATE
    THEN resample(chunk.src, chunk.rate, TARGET_RATE)
    ELSE chunk.src

\* ------------------------------------------------- chars, &str and String
\* A string is the sequence of its chars.  An ASCII char is written as the
\* one-character string it is; the chars outside ASCII that the model knows
\* are written by name.
LowerLetters == <<"a", "b", "c", "d", "e", "f", "g", "h", "i", "j", "k", "l",
                  "m", "n", "o", "p", "q", "r", "s", "t", "u", "v", "w", "x",
                  "y", "z">>

UpperLetters == <<"A", "B", "C", "D", "E", "F", "G", "H", "I", "J", "K", "L",
                  "M", "N", "O", "P", "Q", "R", "S", "T", "U", "V", "W", "X",
                  "Y", "Z">>

\* U+00E9, U+00C9 and U+00DF: letters outside ASCII; the upper case of the
\* last is the two chars "SS".
NonAsciiLetters == {"e-acute", "E-acute", "sharp-s"}

IndexOf(seq, x) == CHOOSE i \in 1..Len(seq) : seq[i] = x

is_alphabetic(ch) ==
    ch \in Range(LowerLetters) \cup Range(UpperLetters) \cup NonAsciiLetters

is_alphanumeric(ch) ==
    is_alphabetic(ch) \/ ch \in {"0", "1", "2", "3", "4", "5", "6", "7", "8", "9"}

\* char::is_whitespace, for the white space the model knows.
is_whitespace(ch) == ch \in {" ", "\t", "\n"}

\* char::is_ascii_punctuation; the double quote, the backslash and the
\* backtick are written by name.
is_ascii_punctuation(ch) ==
    ch \in {"!", "quote", "#", "$", "%", "&", "'", "(", ")", "*", "+", ",", "-",
            ".", "/", ":", ";", "<", "=", ">", "?", "@", "[", "backslash", "]",
            "^", "_", "backtick", "{", "|", "}", "~"}

\* char::to_ascii_lowercase: only A-Z change.
char_to_ascii_lowercase(ch) ==
    IF ch \in Range(UpperLetters) THEN LowerLetters[IndexOf(UpperLetters, ch)]
    ELSE ch

\* char::to_lowercase.
char_to_lowercase(ch) ==
    IF ch = "E-acute" THEN "e-acute" ELSE char_to_ascii_lowercase(ch)

\* char::to_uppercase: the chars the upper case of ch consists of.
char_to_uppercase(ch) ==
    IF ch \in Range(LowerLetters) THEN <<UpperLetters[IndexOf(LowerLetters, ch)]>>
    ELSE IF ch = "e-acute" THEN <<"E-acute">>
    ELSE IF ch = "sharp-s" THEN <<"S", "S">>
    ELSE <<ch>>

\* str::to_ascii_lowercase and str::to_lowercase.
to_ascii_lowercase(str) == [i \in 1..Len(str) |-> char_to_ascii_lowercase(str[i])]

to_lowercase(str) == [i \in 1..Len(str) |-> char_to_lowercase(str[i])]

\* str::trim_matches(pred): what lies between the first and the last char
\* that does not satisfy pred; kept is the set of their positions.
trim_matches(str, kept) ==
    IF kept = {} THEN <<>>
    ELSE SubSeq(str, CHOOSE i \in kept : \A j \in kept : i <= j,
                     CHOOSE i \in kept : \A j \in kept : i >= j)

\* str::trim.
trim(str) == trim_matches(str, {i \in 1..Len(str) : ~is_whitespace(str[i])})

\* str::split_whitespace().collect(): the maximal runs of chars that are not
\* white space; rest is what is left to read, word the run being read.
RECURSIVE split_whitespace_from(_, _, _)
split_whitespace_from(rest, word, words) ==
    LET closed == IF word = <<>> THEN words ELSE Append(words, word)
    IN  IF rest = <<>> THEN closed
        ELSE IF is_whitespace(Head(rest))
             THEN split_whitespace_from(Tail(rest), <<>>, closed)
             ELSE split_whitespace_from(Tail(rest), Append(word, Head(rest)), words)

split_whitespace(str) == split_whitespace_from(str, <<>>, <<>>)

\* [&str]::join(" ").
RECURSIVE join(_, _)
join(parts, sep) ==
    IF parts = <<>> THEN <<>>
    ELSE IF Len(parts) = 1 THEN parts[1]
    ELSE parts[1] \o sep \o join(Tail(parts), sep)

\* ------------------------------------------- consolidation (lib.rs:92-228)
\* A trim that drops the trailing words of short texts too.
trim_trailing_words_Always(text, words) ==
    LET parts == split_whitespace(text)
    IN  join(SubSeq(parts, 1, saturating_sub(Len(parts), words)), <<" ">>)

\* lib.rs:92-98.
trim_trailing_words(text, words) ==
    LET parts == split_whitespace(text)
    IN  join(IF Len(parts) > words THEN SubSeq(parts, 1, Len(parts) - words)
             ELSE parts,
             <<" ">>)

\* lib.rs:100-107.
normalize_word(word) ==
    LET trimmed == trim_matches(word, {i \in 1..Len(word) :
                                          is_alphanumeric(word[i])})
    IN  IF trimmed = <<>> THEN to_ascii_lowercase(word)
        ELSE to_ascii_lowercase(trimmed)

\* lib.rs:126-131: the inner loop of merge_with_overlap; the last k words of
\* existing_words and the first k of next_words normalize alike.
overlap_matches(existing_words, next_words, k) ==
    \A i \in 0..(k - 1) :
        normalize_word(existing_words[Len(existing_words) - k + i + 1])
            = normalize_word(next_words[i + 1])

\* An outer loop that runs from 1 up to k and stops at the first match.
find_overlap_Smallest(existing_words, next_words, k) ==
    LET found == {j \in 1..k : overlap_matches(existing_words, next_words, j)}
    IN  IF found = {} THEN 0 ELSE CHOOSE j \in found : \A i \in found : j <= i

\* lib.rs:125-134: the outer loop, from k down to 1; 0 when none matches.
RECURSIVE find_overlap(_, _, _)
find_overlap(existing_words, next_words, k) ==
    IF k < 1 THEN 0
    ELSE IF overlap_matches(existing_words, next_words, k) THEN k
    ELSE find_overlap(existing_words, next_words, k - 1)

\* merge_with_overlap with the values of its two early returns exchanged.
merge_with_overlap_ReturnsExchanged(existing, next) ==
    LET existing_words == split_whitespace(existing)
        next_words == split_whitespace(next)
    IN  IF existing_words = <<>> THEN existing
        ELSE IF next_words = <<>> THEN next
        ELSE
          LET max_overlap == Min(Min(Len(existing_words), Len(next_words)),
                                 CHUNK_MAX_OVERLAP_WORDS)
              overlap == find_overlap(existing_words, next_words, max_overlap)
              merged == trim(existing)
              rest == join(Slice(next_words, overlap, Len(next_words)), <<" ">>)
          IN  IF overlap < Len(next_words) /\ rest # <<>>
              THEN (IF merged # <<>> THEN Append(merged, " ") ELSE merged)
                      \o trim(rest)
              ELSE merged

\* lib.rs:109-149.
merge_with_overlap(existing, next) ==
    LET existing_words == split_whitespace(existing)
        next_words == split_whitespace(next)
    IN  IF existing_words = <<>> THEN next
        ELSE IF next_words = <<>> THEN existing
        ELSE
          LET max_overlap == Min(Min(Len(existing_words), Len(next_words)),
                                 CHUNK_MAX_OVERLAP_WORDS)
              overlap == find_overlap(existing_words, next_words, max_overlap)
              merged == trim(existing)
              rest == join(Slice(next_words, overlap, Len(next_words)), <<" ">>)
          IN  IF overlap < Len(next_words) /\ rest # <<>>
              THEN (IF merged # <<>> THEN Append(merged, " ") ELSE merged)
                      \o trim(rest)
              ELSE merged

\* The loop of collapse_duplicate_words comparing the words as they are
\* written instead of their normalized forms.
RECURSIVE collapse_duplicate_loop_Exact(_, _, _, _)
collapse_duplicate_loop_Exact(words, i, output, prev_norm) ==
    IF i >= Len(words) THEN output
    ELSE LET word == words[i + 1]
         IN  IF prev_norm # <<>> /\ prev_norm[1] = word
             THEN collapse_duplicate_loop_Exact(words, i + 1, output, prev_norm)
             ELSE collapse_duplicate_loop_Exact(words, i + 1,
                                                Append(output, word), <<word>>)

\* lib.rs:155-164: the loop of collapse_duplicate_words from word i on (0-based);
\* prev_norm is <<>> for None and <<norm>> for Some(norm).
RECURSIVE collapse_duplicate_loop(_, _, _, _)
collapse_duplicate_loop(words, i, output, prev_norm) ==
    IF i >= Len(words) THEN output
    ELSE LET word == words[i + 1]
             norm == normalize_word(word)
         IN  IF prev_norm # <<>> /\ prev_norm[1] = norm
             THEN collapse_duplicate_loop(words, i + 1, output, prev_norm)
             ELSE collapse_duplicate_loop(words, i + 1, Append(output, word),
                                          <<norm>>)

\* lib.rs:151-167.
collapse_duplicate_words(text) ==
    join(collapse_duplicate_loop(split_whitespace(text), 0, <<>>, <<>>), <<" ">>)

\* lib.rs:183-189: the n words at i (0-based) and the n words after them
\* normalize alike.
phrase_matches(words, i, n) ==
    \A j \in 0..(n - 1) :
        normalize_word(words[i + j + 1]) = normalize_word(words[i + n + j + 1])

\* lib.rs:182-196: the for loop, from n down to 2: the first n that matches,
\* 0 when none does (collapsed stays false).
RECURSIVE find_repeat(_, _, _)
find_repeat(words, i, n) ==
    IF n < 2 THEN 0
    ELSE IF phrase_matches(words, i, n) THEN n
    ELSE find_repeat(words, i, n - 1)

\* lib.rs:177-202: the while loop.
RECURSIVE collapse_phrases_loop(_, _, _)
collapse_phrases_loop(words, i, output) ==
    IF i >= Len(words) THEN output
    ELSE LET remaining == Len(words) - i
             max_n == Min(remaining \div 2, CHUNK_MAX_REPEAT_PHRASE_WORDS)
             n == find_repeat(words, i, max_n)
         IN  IF n # 0
             THEN collapse_phrases_loop(words, i + 2 * n,
                                        output \o Slice(words, i, i + n))
             ELSE collapse_phrases_loop(words, i + 1,
                                        Append(output, words[i + 1]))

\* lib.rs:169-205.
collapse_repeated_phrases(text) ==
    LET words == split_whitespace(text)
    IN  IF Len(words) < 4 THEN text
        ELSE join(collapse_phrases_loop(words, 0, <<>>), <<" ">>)

\* lib.rs:208: chunks.iter().rposition(|text| !text.trim().is_empty()), as a
\* 0-based index, or -1 for None.
last_idx(chunks) ==
    LET filled == {i \in 1..Len(chunks) : trim(chunks[i]) # <<>>}
    IN  IF filled = {} THEN -1
        ELSE (CHOOSE i \in filled : \A j \in filled : i >= j) - 1

\* The for loop of consolidate_chunk_texts merging every fragment whole.
RECURSIVE consolidate_loop_Untrimmed(_, _, _)
consolidate_loop_Untrimmed(chunks, idx, combined) ==
    IF idx >= Len(chunks) THEN combined
    ELSE LET trimmed == trim(chunks[idx + 1])
         IN  IF trimmed = <<>>
             THEN consolidate_loop_Untrimmed(chunks, idx + 1, combined)
             ELSE consolidate_loop_Untrimmed(chunks, idx + 1,
                                             merge_with_overlap(combined, trimmed))

\* lib.rs:211-224: the for loop of consolidate_chunk_texts from chunk idx on.
RECURSIVE consolidate_loop(_, _, _)
consolidate_loop(chunks, idx, combined) ==
    IF idx >= Len(chunks) THEN combined
    ELSE LET trimmed == trim(chunks[idx + 1])
             part == IF idx = last_idx(chunks) THEN trimmed
                     ELSE trim_trailing_words(trimmed, CHUNK_TRIM_WORDS)
         IN  IF trimmed = <<>> THEN consolidate_loop(chunks, idx + 1, combined)
             ELSE IF part # <<>>
                  THEN consolidate_loop(chunks, idx + 1,
                                        merge_with_overlap(combined, part))
                  ELSE consolidate_loop(chunks, idx + 1, combined)

\* lib.rs:226-227: the dedupe pass that ends consolidate_chunk_texts.
dedupe_pass(combined) ==
    collapse_duplicate_words(collapse_repeated_phrases(combined))

\* lib.rs:207-228.
consolidate_chunk_texts(chunks) ==
    dedupe_pass(consolidate_loop(chunks, 0, <<>>))

\* --------------------------------------- post-processing (postprocessing.rs)
\* The for loop of capitalize_sentences with capitalize_next left alone after
\* a '.', '!' or '?'.
RECURSIVE capitalize_loop_FirstOnly(_, _, _, _)
capitalize_loop_FirstOnly(text, i, result, capitalize_next) ==
    IF i >= Len(text) THEN result
    ELSE LET ch == text[i + 1]
         IN  IF capitalize_next /\ is_alphabetic(ch)
             THEN capitalize_loop_FirstOnly(text, i + 1,
                                            result \o char_to_uppercase(ch), FALSE)
             ELSE capitalize_loop_FirstOnly(text, i + 1, Append(result, ch),
                                            capitalize_next)

\* postprocessing.rs:16-26: the for loop of capitalize_sentences from char i
\* on (0-based).
RECURSIVE capitalize_loop(_, _, _, _)
capitalize_loop(text, i, result, capitalize_next) ==
    IF i >= Len(text) THEN result
    ELSE LET ch == text[i + 1]
         IN  IF capitalize_next /\ is_alphabetic(ch)
             THEN capitalize_loop(text, i + 1, result \o char_to_uppercase(ch),
                                  FALSE)
             ELSE capitalize_loop(text, i + 1, Append(result, ch),
                                  capitalize_next \/ ch \in {".", "!", "?"})

\* postprocessing.rs:8-29.
capitalize_sentences(text) ==
    IF text = <<>> THEN <<>>
    ELSE capitalize_loop(text, 0, <<>>, TRUE)

\* str::len: the bytes of the UTF-8 encoding; the chars outside ASCII that the
\* model knows take two.
len(str) ==
    Len(str) + Cardinality({k \in 1..Len(str) : str[k] \in NonAsciiLetters})

\* The regex class \w, for the chars the model knows.
is_word_char(ch) == is_alphanumeric(ch) \/ ch = "_"

\* The regex assertion \b after the first p chars of text: a word char on
\* exactly one side.
word_boundary(text, p) ==
    (p >= 1 /\ is_word_char(text[p])) # (p < Len(text) /\ is_word_char(text[p + 1]))

\* A literal pattern under (?i) matches text after its first i chars.
matches_at(text, i, pattern) ==
    /\ i + Len(pattern) <= Len(text)
    /\ \A k \in 1..Len(pattern) :
          char_to_lowercase(text[i + k]) = char_to_lowercase(pattern[k])

\* The regex \s* from position e on: the position after the white space.
RECURSIVE skip_whitespace(_, _)
skip_whitespace(text, e) ==
    IF e < Len(text) /\ is_whitespace(text[e + 1]) THEN skip_whitespace(text, e + 1)
    ELSE e

\* postprocessing.rs:51-54: replace_all of (?i)\bfiller\b\s* by " ", from
\* position i on; a match does not overlap the one before it.
RECURSIVE replace_filler(_, _, _, _)
replace_filler(text, filler, i, result) ==
    IF i >= Len(text) THEN result
    ELSE IF /\ matches_at(text, i, filler)
            /\ word_boundary(text, i)
            /\ word_boundary(text, i + Len(filler))
         THEN replace_filler(text, filler,
                             skip_whitespace(text, i + Len(filler)),
                             Append(result, " "))
         ELSE replace_filler(text, filler, i + 1, Append(result, text[i + 1]))

\* postprocessing.rs:41-42: the fillers sorted by len, longest first; the sort
\* is stable.
sorted_fillers(filler_words) ==
    LET rank(i) ==
            1 + Cardinality({j \in 1..Len(filler_words) :
                               \/ len(filler_words[j]) > len(filler_words[i])
                               \/ /\ len(filler_words[j]) = len(filler_words[i])
                                  /\ j < i})
    IN  [r \in 1..Len(filler_words) |->
            filler_words[CHOOSE i \in 1..Len(filler_words) : rank(i) = r]]

\* postprocessing.rs:44-55: the for loop over the sorted fillers, from the
\* k-th on (0-based).
RECURSIVE remove_filler_loop(_, _, _)
remove_filler_loop(result, fillers, k) ==
    IF k >= Len(fillers) THEN result
    ELSE IF fillers[k + 1] = <<>> THEN remove_filler_loop(result, fillers, k + 1)
    ELSE remove_filler_loop(replace_filler(result, fillers[k + 1], 0, <<>>),
                            fillers, k + 1)

\* replace_all of \s+ by " ": every run of white space becomes one blank.
collapse_whitespace(text) ==
    LET Upto[k \in 0..Len(text)] ==
            IF k = 0 THEN <<>>
            ELSE IF ~is_whitespace(text[k]) THEN Append(Upto[k - 1], text[k])
            ELSE IF k > 1 /\ is_whitespace(text[k - 1]) THEN Upto[k - 1]
            ELSE Append(Upto[k - 1], " ")
    IN  Upto[Len(text)]

\* postprocessing.rs:33-61.
remove_filler_words(text, filler_words) ==
    IF filler_words = <<>> THEN text
    ELSE trim(collapse_whitespace(
                  remove_filler_loop(text, sorted_fillers(filler_words), 0)))

\* postprocessing.rs:73-76: replace_all of (?i)find by replace from position i
\* on.  The replacement is copied as it is: a '$' in it, which the regex crate
\* expands, is outside the model.
RECURSIVE replace_all(_, _, _, _, _)
replace_all(text, find, replace, i, result) ==
    IF i >= Len(text) THEN result
    ELSE IF matches_at(text, i, find)
         THEN replace_all(text, find, replace, i + Len(find), result \o replace)
         ELSE replace_all(text, find, replace, i + 1, Append(result, text[i + 1]))

\* postprocessing.rs:67-77: the for loop over the rules, from the k-th on
\* (0-based).
RECURSIVE apply_replacements_loop(_, _, _)
apply_replacements_loop(result, rules, k) ==
    IF k >= Len(rules) THEN result
    ELSE IF rules[k + 1].find = <<>>
         THEN apply_replacements_loop(result, rules, k + 1)
    ELSE apply_replacements_loop(
             replace_all(result, rules[k + 1].find, rules[k + 1].replace, 0, <<>>),
             rules, k + 1)

\* postprocessing.rs:64-80.
apply_replacements(text, rules) == apply_replacements_loop(text, rules, 0)

\* postprocessing.rs:83-95.
remove_punctuation(text) ==
    trim(collapse_whitespace(
             SelectSeq(text, LAMBDA ch : ~is_ascii_punctuation(ch))))

\* ------------------------------------- dedupe (postprocessing.rs:97-187)
\* postprocessing.rs:98-103.
postprocessing_normalize_word(word) ==
    to_lowercase(SelectSeq(word, is_alphanumeric))

\* postprocessing.rs:110-119: the loop of collapse_duplicate_words.
RECURSIVE postprocessing_collapse_duplicate_loop(_, _, _, _)
postprocessing_collapse_duplicate_loop(words, i, output, prev_norm) ==
    IF i >= Len(words) THEN output
    ELSE LET word == words[i + 1]
             norm == postprocessing_normalize_word(word)
         IN  IF prev_norm # <<>> /\ prev_norm[1] = norm
             THEN postprocessing_collapse_duplicate_loop(words, i + 1, output,
                                                         prev_norm)
             ELSE postprocessing_collapse_duplicate_loop(
                      words, i + 1, Append(output, word), <<norm>>)

\* postprocessing.rs:106-122.
postprocessing_collapse_duplicate_words(text) ==
    join(postprocessing_collapse_duplicate_loop(split_whitespace(text), 0,
                                                <<>>, <<>>),
         <<" ">>)

\* postprocessing.rs:148-154: the n words at i and the n words at j (0-based)
\* normalize alike.
postprocessing_phrase_matches(words, i, j, n) ==
    \A k \in 0..(n - 1) :
        postprocessing_normalize_word(words[i + k + 1])
            = postprocessing_normalize_word(words[j + k + 1])

\* postprocessing.rs:147-161: the while loop that counts the consecutive
\* repeats of the phrase of n words at i, from position j on.
RECURSIVE count_repeats(_, _, _, _, _)
count_repeats(words, i, n, j, repeat_count) ==
    IF j + n <= Len(words) /\ postprocessing_phrase_matches(words, i, j, n)
    THEN count_repeats(words, i, n, j + n, repeat_count + 1)
    ELSE repeat_count

\* postprocessing.rs:142-170: the for loop, from n down to 2: the first n whose
\* phrase repeats, with its repeat_count; <<0, 1>> when none does.
RECURSIVE postprocessing_find_repeat(_, _, _)
postprocessing_find_repeat(words, i, n) ==
    IF n < 2 THEN <<0, 1>>
    ELSE LET repeat_count == count_repeats(words, i, n, i + n, 1)
         IN  IF repeat_count > 1 THEN <<n, repeat_count>>
             ELSE postprocessing_find_repeat(words, i, n - 1)

\* postprocessing.rs:136-176: the outer while loop.
RECURSIVE postprocessing_collapse_phrases_loop(_, _, _)
postprocessing_collapse_phrases_loop(words, i, output) ==
    IF i >= Len(words) THEN output
    ELSE LET remaining == Len(words) - i
             max_n == Min(remaining \div 2, max_phrase_len)
             found == postprocessing_find_repeat(words, i, max_n)
             n == found[1]
             repeat_count == found[2]
         IN  IF n # 0
             THEN postprocessing_collapse_phrases_loop(
                      words, i + n * repeat_count,
                      output \o Slice(words, i, i + n))
             ELSE postprocessing_collapse_phrases_loop(
                      words, i + 1, Append(output, words[i + 1]))

\* postprocessing.rs:126-179.
postprocessing_collapse_repeated_phrases(text) ==
    LET words == split_whitespace(text)
    IN  IF Len(words) < 4 THEN text
        ELSE join(postprocessing_collapse_phrases_loop(words, 0, <<>>), <<" ">>)

\* postprocessing.rs:182-187.
dedupe_repeated_phrases(text) ==
    postprocessing_collapse_duplicate_words(
        postprocessing_collapse_repeated_phrases(text))

\* apply_postprocessing with capitalization before the dedupe.
apply_postprocessing_CapitalizesEarly(text, settings) ==
    IF text = <<>> THEN <<>>
    ELSE
      LET result1 == IF settings.remove_filler_words
                     THEN remove_filler_words(text, settings.filler_words)
                     ELSE text
          result2 == IF settings.custom_replacements # <<>>
                     THEN apply_replacements(result1, settings.custom_replacements)
                     ELSE result1
          result3 == IF settings.remove_punctuation
                     THEN remove_punctuation(result2)
                     ELSE result2
          result4 == IF settings.auto_capitalize
                     THEN capitalize_sentences(result3)
                     ELSE result3
          result5 == IF settings.dedupe_repeated_phrases
                     THEN dedupe_repeated_phrases(result4)
                     ELSE result4
      IN  result5

\* postprocessing.rs:190-224; result1..result5 are the values of result after
\* the steps 1 to 5.
apply_postprocessing(text, settings) ==
    IF text = <<>> THEN <<>>
    ELSE
      LET result1 == IF settings.remove_filler_words
                     THEN remove_filler_words(text, settings.filler_words)
                     ELSE text
          result2 == IF settings.custom_replacements # <<>>
                     THEN apply_replacements(result1, settings.custom_replacements)
                     ELSE result1
          result3 == IF settings.remove_punctuation
                     THEN remove_punctuation(result2)
                     ELSE result2
          result4 == IF settings.dedupe_repeated_phrases
                     THEN dedupe_repeated_phrases(result3)
                     ELSE result3
          result5 == IF settings.auto_capitalize
                     THEN capitalize_sentences(result4)
                     ELSE result4
      IN  result5

\* ------------------------------------------------------- the text caller
\* The caller of SpecText holds a list of fragments and calls one of the text
\* functions on it.
Sentence(words) == join(words, <<" ">>)

\* The texts of at most n words over a set of words, single-spaced.
Sentences(words, n) ==
    {Sentence(ws) : ws \in UNION {[1..k -> words] : k \in 0..n}}

TheCatSat ==
    Sentence(<<<<"t", "h", "e">>, <<"c", "a", "t">>, <<"s", "a", "t">>>>)

CatSatOnMat ==
    Sentence(<<<<"c", "a", "t">>, <<"s", "a", "t">>, <<"o", "n">>,
               <<"m", "a", "t">>>>)

TheCatSatOnMat ==
    Sentence(<<<<"t", "h", "e">>, <<"c", "a", "t">>, <<"s", "a", "t">>,
               <<"o", "n">>, <<"m", "a", "t">>>>)

HelloWorld ==
    Sentence(<<<<"h", "e", "l", "l", "o">>, <<"w", "o", "r", "l", "d">>>>)

FooBar ==
    Sentence(<<<<"f", "o", "o">>, <<"b", "a", "r">>>>)

HelloWorldFooBar ==
    Sentence(<<<<"h", "e", "l", "l", "o">>, <<"w", "o", "r", "l", "d">>,
               <<"f", "o", "o">>, <<"b", "a", "r">>>>)

\* The pairs handed to merge_with_overlap: all pairs of short texts over the
\* words "a", "A,", "b" and "-" (two that normalize alike, one that does not,
\* one without an alphanumeric char), pairs of "a" said up to MaxRepeated
\* times, whose overlap reaches beyond CHUNK_MAX_OVERLAP_WORDS, texts with
\* white space around and between the words, and the documented pairs.
MergeInputs ==
    LET SmallWords == {<<"a">>, <<"A", ",">>, <<"b">>, <<"-">>}
        Repeated(n) == Sentence([i \in 1..n |-> <<"a">>])
    IN
    (Sentences(SmallWords, MaxMergeWords) \X Sentences(SmallWords, MaxMergeWords))
    \cup {<<Repeated(n), Repeated(m)>> : n, m \in 0..MaxRepeated}
    \cup {<<<<" ", "a", " ", " ", "b", "\t">>, <<"\n", "B", ".", " ", " ", "c", " ">>>>,
          <<<<" ", " ">>, <<" ", "a", " ", " ", "b">>>>,
          <<<<" ", "a", " ", " ", "b">>, <<"\t">>>>,
          <<TheCatSat, CatSatOnMat>>, <<HelloWorld, FooBar>>}

\* The fragment made of the n words that are the letters i, i+1, ...
Window(i, n) == Sentence([j \in 1..n |-> <<LowerLetters[i + j - 1]>>])

\* The lists handed to consolidate_chunk_texts: up to MaxFragments fragments,
\* each empty, white space only, or up to MaxFragmentWords words of the
\* alphabet starting at one of the first MaxWindowStart letters, so that
\* fragments overlap with the ones before them.
\* "um I went to the", "to the store and bought", "bought milk".
WentToTheStore ==
    <<Sentence(<<<<"u", "m">>, <<"I">>, <<"w", "e", "n", "t">>, <<"t", "o">>, <<"t", "h", "e">>>>),
      Sentence(<<<<"t", "o">>, <<"t", "h", "e">>, <<"s", "t", "o", "r", "e">>, <<"a", "n", "d">>, <<"b", "o", "u", "g", "h", "t">>>>),
      Sentence(<<<<"b", "o", "u", "g", "h", "t">>, <<"m", "i", "l", "k">>>>)>>

ConsolidateInputs ==
    LET ConsolidateFragments ==
            {Window(i, n) : i \in 1..MaxWindowStart, n \in 0..MaxFragmentWords}
               \cup {<<" ">>, <<" ", "a", " ", "\t", "B", "\n">>}
    IN  UNION {[1..k -> ConsolidateFragments] : k \in 0..MaxFragments}
           \cup {WentToTheStore}

INeedYouINeedYouNow ==
    Sentence(<<<<"i">>, <<"n", "e", "e", "d">>, <<"y", "o", "u">>, <<"i">>,
               <<"n", "e", "e", "d">>, <<"y", "o", "u">>, <<"n", "o", "w">>>>)

INeedYouNow ==
    Sentence(<<<<"i">>, <<"n", "e", "e", "d">>, <<"y", "o", "u">>,
               <<"n", "o", "w">>>>)

TheTheCatCatSat ==
    Sentence(<<<<"t", "h", "e">>, <<"t", "h", "e">>, <<"c", "a", "t">>,
               <<"c", "a", "t">>, <<"s", "a", "t">>>>)

\* The first n letters as a phrase, said r times, and then tail times "z".
RepeatedPhrase(n, r, tail) ==
    Sentence([k \in 1..(n * r + tail) |->
                IF k <= n * r THEN <<LowerLetters[((k - 1) % n) + 1]>>
                ELSE <<"z">>])

\* The texts handed to the functions of one text: every short text over the
\* words "a", "A." and "b", phrases of up to MaxPhraseWords words said up to
\* MaxSaid times, and the documented texts.
CollapseInputs ==
    {<<t>> : t \in Sentences({<<"a">>, <<"A", ".">>, <<"b">>}, MaxCollapseWords)
                    \cup {RepeatedPhrase(n, r, tail) :
                            n \in 1..MaxPhraseWords, r \in 1..MaxSaid,
                            tail \in 0..1}
                    \cup {INeedYouINeedYouNow, TheTheCatCatSat}}

\* "hello. how are you?" and "first. second! third?".
HelloHowAreYou == <<"h", "e", "l", "l", "o", ".", " ", "h", "o", "w", " ", "a", "r", "e", " ", "y", "o", "u", "?">>

FirstSecondThird == <<"f", "i", "r", "s", "t", ".", " ", "s", "e", "c", "o", "n", "d", "!", " ", "t", "h", "i", "r", "d", "?">>

\* The texts handed to capitalize_sentences: up to MaxCapitalizeChars chars
\* that are letters of either case, inside ASCII and outside, the three chars
\* that end a sentence, or chars that are neither; and the texts of its test.
CapitalizeInputs ==
    LET CapitalizeChars == {"a", "Z", "e-acute", "sharp-s", ".", "!", "?", " ", "1"}
    IN  {<<t>> : t \in UNION {[1..k -> CapitalizeChars] :
                                  k \in 0..MaxCapitalizeChars}
                         \cup {HelloHowAreYou, FirstSecondThird}}

\* The settings: every choice of the four switches, a list of one filler or of
\* a filler and a longer one that contains it, and no replacement rule, one
\* rule, or a rule and a rule with nothing to find.
PostSettings ==
    [remove_filler_words : BOOLEAN,
     filler_words : {<<<<"u", "m">>>>, <<<<"b">>, <<"u", "m", " ", "b">>>>},
     custom_replacements :
        {<<>>,
         <<[find |-> <<"b">>, replace |-> <<"u", "m">>]>>,
         <<[find |-> <<"s", "s">>, replace |-> <<".">>],
           [find |-> <<>>, replace |-> <<"x">>]>>},
     remove_punctuation : BOOLEAN,
     dedupe_repeated_phrases : BOOLEAN,
     auto_capitalize : BOOLEAN]

\* The texts handed to apply_postprocessing with each of the settings: up to
\* MaxPostWords of a filler, a word in two spellings, a word that is
\* punctuation only, and two words of which the second is the lower case of
\* the upper case of the first.
PostInputs ==
    LET PostWords == {<<"u", "m">>, <<"b">>, <<"B", ".">>, <<"-">>, <<"sharp-s">>,
                      <<"s", "s">>}
    IN  {[fragments |-> <<t>>, settings |-> st] :
            t \in Sentences(PostWords, MaxPostWords), st \in PostSettings}

\* The slices handed to resample: up to MaxResampleLen samples, each
\* represented by its position in the slice, at a native rate that is a
\* multiple of the target rate, the target rate itself, or half of it.
ResampleInputs ==
    {[samples |-> [i \in 1..n |-> i], from_rate |-> r, to_rate |-> TARGET_RATE] :
        n \in 0..MaxResampleLen, r \in {8000, 16000, 32000, 48000}}

TextInputs ==
    {[fragments |-> f] :
        f \in MergeInputs \cup ConsolidateInputs \cup CollapseInputs
                 \cup CapitalizeInputs}
       \cup PostInputs \cup ResampleInputs

\* No text function has been called (Spec, SpecCapture and the session
\* specifications leave the text caller idle).
InitTextIdle ==
    /\ text_in = [fragments |-> <<>>]
    /\ text_fn = "none"
    /\ text_ret = <<>>

\* ------------------------------------------------------------ the devices
\* What the thread meets between audio.rs:57 and audio.rs:150: a device whose
\* stream plays at some native rate, or one of the start-up failures.
Devices ==
    {[status |-> "ok", rate |-> r] : r \in SampleRates}
    \cup {[status |-> f, rate |-> 0] : f \in StartupFailures}

\* ------------------------------------------------------ AudioRecorder::new
InitRecorder ==
    /\ command_tx = 0
    /\ rec_is_recording = FALSE
    /\ th_gen = 0
    /\ th_pc = "none"
    /\ th_exit = ""
    /\ chunk_overlap_seconds = 0
    /\ sample_rate = 0
    /\ overlap_samples = 0
    /\ last_chunk_index = 0
    /\ samples = <<>>
    /\ cmd_rx = <<>>
    /\ reply = NoReply
    /\ rec_call = NoCall
    /\ appended = 0
    /\ th_base = 0
    /\ since_append = 0
    /\ chunk_log = <<>>
    /\ early_ok = FALSE
    /\ buffer_lock = "free"
    /\ cb_pc = "idle"
    /\ cb_frames = 0
    /\ h_pc = "recv"
    /\ h_chunk = NoChunk

\* ------------------------------------------ AudioRecorder::start_recording
\* A start_recording without its early return.
AlreadyRecording_Never == FALSE

\* audio.rs:39: the early return when the flag is already set.
AlreadyRecording == rec_is_recording

\* audio.rs:34-204.  The call itself never waits and always returns Ok(()):
\* every failure of the thread it spawns is only logged (audio.rs:61, 69, 141,
\* 148, 199).  The value is the Result the caller sees.
start_recording_result == "ok"

\* A start_recording whose thread goes on with the buffer and the cursor of
\* the session before it.
start_recording_KeepsBuffer(overlap_seconds) ==
    IF AlreadyRecording
    THEN /\ early_ok' = TRUE
         /\ UNCHANGED <<device, command_tx, rec_is_recording, th_gen, th_pc,
                        th_exit, chunk_overlap_seconds, sample_rate,
                        overlap_samples, last_chunk_index, samples, cmd_rx,
                        reply, rec_call, appended, th_base, since_append,
                        chunk_log>>
    ELSE /\ th_gen < MaxThreads
         /\ th_gen' = th_gen + 1
         /\ command_tx' = th_gen + 1
         /\ rec_is_recording' = TRUE
         /\ th_pc' = "starting"
         /\ th_exit' = ""
         /\ chunk_overlap_seconds' = overlap_seconds
         /\ cmd_rx' = <<>>
         /\ sample_rate' = 0
         /\ overlap_samples' = 0
         /\ th_base' = appended
         /\ since_append' = 0
         /\ chunk_log' = <<>>
         /\ UNCHANGED <<device, samples, last_chunk_index, reply, rec_call,
                        appended, early_ok>>

start_recording(overlap_seconds) ==
    IF AlreadyRecording
    THEN /\ early_ok' = TRUE
         /\ UNCHANGED <<device, command_tx, rec_is_recording, th_gen, th_pc,
                        th_exit, chunk_overlap_seconds, sample_rate,
                        overlap_samples, last_chunk_index, samples, cmd_rx,
                        reply, rec_call, appended, th_base, since_append,
                        chunk_log>>
    ELSE /\ th_gen < MaxThreads
         /\ th_gen' = th_gen + 1
         /\ command_tx' = th_gen + 1               \* audio.rs:43-44
         /\ rec_is_recording' = TRUE               \* audio.rs:45
         /\ th_pc' = "starting"                    \* audio.rs:50
         /\ th_exit' = ""
         /\ chunk_overlap_seconds' = overlap_seconds
         /\ samples' = <<>>                        \* audio.rs:51
         /\ cmd_rx' = <<>>
         /\ sample_rate' = 0
         /\ overlap_samples' = 0
         /\ last_chunk_index' = 0
         /\ th_base' = appended
         /\ since_append' = 0
         /\ chunk_log' = <<>>
         /\ UNCHANGED <<device, reply, rec_call, appended, early_ok>>

\* ------------------------------------------------------ the capture thread
\* audio.rs:57-153: open the device, build and play the stream, then enter the
\* command loop; or log the failure and return, which drops cmd_rx.
CaptureThreadStartup ==
    /\ th_pc = "starting"
    /\ IF device.status = "ok"
       THEN /\ th_pc' = "running"
            /\ sample_rate' = device.rate
            /\ overlap_samples' = device.rate * chunk_overlap_seconds
            /\ last_chunk_index' = 0
            /\ UNCHANGED <<th_exit, cmd_rx>>
       ELSE /\ th_pc' = "exited"
            /\ th_exit' = device.status
            /\ cmd_rx' = <<>>
            /\ UNCHANGED <<sample_rate, overlap_samples, last_chunk_index>>
    /\ UNCHANGED <<device, command_tx, rec_is_recording, th_gen,
                   chunk_overlap_seconds, samples, reply, rec_call, appended,
                   th_base, since_append, chunk_log, early_ok>>

\* audio.rs:85-109 / 115-136: one invocation of the input callback delivering
\* n frames; each frame is mixed down to one sample and pushed under the lock.
\* `limit` bounds the frames delivered in one run of the model.
Callback(n, limit) ==
    /\ th_pc = "running"
    /\ rec_is_recording                            \* audio.rs:86
    /\ appended + n <= limit
    /\ samples' = samples \o [i \in 1..n |-> appended + i]
    /\ appended' = appended + n
    /\ since_append' = 0
    /\ UNCHANGED <<device, command_tx, rec_is_recording, th_gen, th_pc, th_exit,
                   chunk_overlap_seconds, sample_rate, overlap_samples,
                   last_chunk_index, cmd_rx, reply, rec_call, th_base,
                   chunk_log, early_ok>>

\* The test of audio.rs:161 with < for <=.
NoNewAudio_Strict(chunk_end, cursor) == chunk_end < cursor

\* audio.rs:161: nothing new since the last drain.
NoNewAudio(chunk_end, cursor) == chunk_end <= cursor

\* The subtraction of audio.rs:166 with its operands exchanged.
ChunkStart_Swapped(cursor, overlap) == saturating_sub(overlap, cursor)

\* audio.rs:166.
ChunkStart(cursor, overlap) == saturating_sub(cursor, overlap)

\* A retain_start one sample too early: overlap + 1 samples are kept.
Retained_OneMore(buffer, overlap) ==
    IF overlap > 0
    THEN Slice(buffer, saturating_sub(Len(buffer), overlap + 1), Len(buffer))
    ELSE <<>>

\* audio.rs:169-177: the buffer retained by a drain.
Retained(buffer, overlap) ==
    IF overlap > 0
    THEN Slice(buffer, saturating_sub(Len(buffer), overlap), Len(buffer))
    ELSE <<>>

\* A cursor set to the configured overlap instead of the retained length.
CursorAfter_Overlap(retained, overlap) == overlap

\* A cursor reset to 0 by every drain.
CursorAfter_Zero(retained, overlap) == 0

\* audio.rs:173 / 176: the cursor after a drain that retained `retained`.
CursorAfter(retained, overlap) == IF overlap > 0 THEN Len(retained) ELSE 0

\* A DrainChunk that gives up the buffer lock between copying the chunk and
\* truncating the buffer: a callback may push n frames in between, and the
\* truncation and the cursor then count them as drained.
HandleDrainChunk_Unlocked ==
    /\ th_pc = "running"
    /\ cmd_rx # <<>>
    /\ Head(cmd_rx) = "drain"
    /\ cmd_rx' = Tail(cmd_rx)
    /\ since_append' = Min(since_append + 1, 2)
    /\ LET chunk_end == Len(samples) IN
       IF NoNewAudio(chunk_end, last_chunk_index)
       THEN /\ reply' = ErrReply("drain", "No new audio")
            /\ UNCHANGED <<samples, last_chunk_index, chunk_log, appended>>
       ELSE \E n \in 0..1 :
            LET chunk_start == ChunkStart(last_chunk_index, overlap_samples)
                chunk_samples == Slice(samples, chunk_start, chunk_end)
                pushed == samples \o [i \in 1..n |-> appended + i]
                retained == IF overlap_samples > 0
                            THEN Slice(pushed,
                                       saturating_sub(chunk_end, overlap_samples),
                                       Len(pushed))
                            ELSE <<>>
            IN  /\ appended + n <= MaxSamples
                /\ appended' = appended + n
                /\ samples' = retained
                /\ last_chunk_index' = CursorAfter(retained, overlap_samples)
                /\ reply' = OkReply("drain", [src |-> chunk_samples,
                                              rate |-> sample_rate])
                /\ chunk_log' = Append(chunk_log, [src |-> chunk_samples,
                                                   upto |-> appended])
    /\ UNCHANGED <<device, command_tx, rec_is_recording, th_gen, th_pc, th_exit,
                   chunk_overlap_seconds, sample_rate, overlap_samples,
                   rec_call, th_base, early_ok>>

\* audio.rs:158-189: AudioCommand::DrainChunk.
HandleDrainChunk ==
    /\ th_pc = "running"
    /\ cmd_rx # <<>>
    /\ Head(cmd_rx) = "drain"
    /\ cmd_rx' = Tail(cmd_rx)
    /\ since_append' = Min(since_append + 1, 2)
    /\ LET chunk_end == Len(samples) IN
       IF NoNewAudio(chunk_end, last_chunk_index)
       THEN /\ reply' = ErrReply("drain", "No new audio")
            /\ UNCHANGED <<samples, last_chunk_index, chunk_log>>
       ELSE LET chunk_start == ChunkStart(last_chunk_index, overlap_samples)
                chunk_samples == Slice(samples, chunk_start, chunk_end)
                retained == Retained(samples, overlap_samples)
            IN  /\ samples' = retained
                /\ last_chunk_index' = CursorAfter(retained, overlap_samples)
                /\ reply' = OkReply("drain", [src |-> chunk_samples,
                                              rate |-> sample_rate])
                /\ chunk_log' = Append(chunk_log, [src |-> chunk_samples,
                                                   upto |-> appended])
    /\ UNCHANGED <<device, command_tx, rec_is_recording, th_gen, th_pc, th_exit,
                   chunk_overlap_seconds, sample_rate, overlap_samples,
                   rec_call, appended, th_base, early_ok>>

\* A Stop handler that replies and leaves without clearing the shared flag.
HandleStop_FlagKept ==
    /\ th_pc = "running"
    /\ cmd_rx # <<>>
    /\ Head(cmd_rx) = "stop"
    /\ cmd_rx' = <<>>
    /\ reply' = OkReply("stop", NoChunk)
    /\ th_pc' = "exited"
    /\ th_exit' = "stopped"
    /\ UNCHANGED <<device, command_tx, rec_is_recording, th_gen,
                   chunk_overlap_seconds, sample_rate, overlap_samples,
                   last_chunk_index, samples, rec_call, appended, th_base,
                   since_append, chunk_log, early_ok>>

\* audio.rs:190-195: AudioCommand::Stop.
HandleStop ==
    /\ th_pc = "running"
    /\ cmd_rx # <<>>
    /\ Head(cmd_rx) = "stop"
    /\ cmd_rx' = <<>>
    /\ rec_is_recording' = FALSE
    /\ reply' = OkReply("stop", NoChunk)
    /\ th_pc' = "exited"
    /\ th_exit' = "stopped"
    /\ UNCHANGED <<device, command_tx, th_gen, chunk_overlap_seconds,
                   sample_rate, overlap_samples, last_chunk_index, samples,
                   rec_call, appended, th_base, since_append, chunk_log,
                   early_ok>>

\* ------------------------------ the same thread and callback, step by step
\* The callback and the DrainChunk handler with the buffer mutex made
\* visible: each takes the lock in a step of its own and gives it up where
\* its guard goes out of scope.
\* audio.rs:86: the callback is invoked with n frames and finds the flag set;
\* it goes on to samples_producer.lock().
CallbackFlag(n, limit) ==
    /\ th_pc = "running"
    /\ rec_is_recording
    /\ cb_pc = "idle"
    /\ appended + n <= limit
    /\ cb_pc' = "lock"
    /\ cb_frames' = n
    /\ UNCHANGED <<capVars, buffer_lock, h_pc, h_chunk>>

\* audio.rs:87: lock() returns once the mutex is free.
CallbackLock ==
    /\ cb_pc = "lock"
    /\ buffer_lock = "free"
    /\ buffer_lock' = "callback"
    /\ cb_pc' = "push"
    /\ UNCHANGED <<capVars, cb_frames, h_pc, h_chunk>>

\* audio.rs:88-100: every frame is mixed down and pushed.
CallbackPush ==
    /\ cb_pc = "push"
    /\ samples' = samples \o [i \in 1..cb_frames |-> appended + i]
    /\ appended' = appended + cb_frames
    /\ since_append' = 0
    /\ cb_pc' = "level"
    /\ UNCHANGED <<device, command_tx, rec_is_recording, th_gen, th_pc, th_exit,
                   chunk_overlap_seconds, sample_rate, overlap_samples,
                   last_chunk_index, cmd_rx, reply, rec_call, th_base,
                   chunk_log, early_ok, buffer_lock, cb_frames, h_pc, h_chunk>>

\* audio.rs:102-108: the loudness is sent on the unbounded level channel, and
\* the guard s goes out of scope at the end of the if block.
CallbackLevel ==
    /\ cb_pc = "level"
    /\ buffer_lock' = "free"
    /\ cb_pc' = "idle"
    /\ cb_frames' = 0
    /\ UNCHANGED <<capVars, h_pc, h_chunk>>

\* audio.rs:156-159: a DrainChunk command is received and samples.lock()
\* returns once the mutex is free.
DrainLock ==
    /\ th_pc = "running"
    /\ h_pc = "recv"
    /\ cmd_rx # <<>>
    /\ Head(cmd_rx) = "drain"
    /\ buffer_lock = "free"
    /\ cmd_rx' = Tail(cmd_rx)
    /\ buffer_lock' = "handler"
    /\ h_pc' = "window"
    /\ UNCHANGED <<device, command_tx, rec_is_recording, th_gen, th_pc, th_exit,
                   chunk_overlap_seconds, sample_rate, overlap_samples,
                   last_chunk_index, samples, reply, rec_call, appended,
                   th_base, since_append, chunk_log, early_ok, cb_pc,
                   cb_frames, h_chunk>>

\* audio.rs:160-177: the window is computed, the slice copied and the buffer
\* truncated; with nothing new the handler turns to its error reply.
DrainWindow ==
    /\ h_pc = "window"
    /\ since_append' = Min(since_append + 1, 2)
    /\ LET chunk_end == Len(samples) IN
       IF NoNewAudio(chunk_end, last_chunk_index)
       THEN /\ h_pc' = "no_audio"
            /\ UNCHANGED <<samples, last_chunk_index, chunk_log, h_chunk>>
       ELSE LET chunk_start == ChunkStart(last_chunk_index, overlap_samples)
                chunk_samples == Slice(samples, chunk_start, chunk_end)
                retained == Retained(samples, overlap_samples)
            IN  /\ samples' = retained
                /\ last_chunk_index' = CursorAfter(retained, overlap_samples)
                /\ h_chunk' = [src |-> chunk_samples, rate |-> sample_rate]
                /\ chunk_log' = Append(chunk_log, [src |-> chunk_samples,
                                                   upto |-> appended])
                /\ h_pc' = "drop"
    /\ UNCHANGED <<device, command_tx, rec_is_recording, th_gen, th_pc, th_exit,
                   chunk_overlap_seconds, sample_rate, overlap_samples,
                   cmd_rx, reply, rec_call, appended, th_base, early_ok,
                   buffer_lock, cb_pc, cb_frames>>

\* audio.rs:162-163: the error is sent on the reply channel and `continue`
\* leaves the block, which drops the guard.
DrainNoAudio ==
    /\ h_pc = "no_audio"
    /\ reply' = ErrReply("drain", "No new audio")
    /\ buffer_lock' = "free"
    /\ h_pc' = "recv"
    /\ UNCHANGED <<device, command_tx, rec_is_recording, th_gen, th_pc, th_exit,
                   chunk_overlap_seconds, sample_rate, overlap_samples,
                   last_chunk_index, samples, cmd_rx, rec_call, appended,
                   th_base, since_append, chunk_log, early_ok, cb_pc,
                   cb_frames, h_chunk>>

\* A handler that goes on to resample and encode with the guard still alive.
DrainDrop_Forgotten ==
    /\ h_pc = "drop"
    /\ h_pc' = "encode"
    /\ UNCHANGED <<capVars, buffer_lock, cb_pc, cb_frames, h_chunk>>

\* audio.rs:179: drop(buffer).
DrainDrop ==
    /\ h_pc = "drop"
    /\ buffer_lock' = "free"
    /\ h_pc' = "encode"
    /\ UNCHANGED <<capVars, cb_pc, cb_frames, h_chunk>>

\* audio.rs:181-188: the chunk is resampled, encoded and sent as the reply.
DrainEncodeSend ==
    /\ h_pc = "encode"
    /\ reply' = OkReply("drain", h_chunk)
    /\ h_chunk' = NoChunk
    /\ h_pc' = "recv"
    /\ UNCHANGED <<device, command_tx, rec_is_recording, th_gen, th_pc, th_exit,
                   chunk_overlap_seconds, sample_rate, overlap_samples,
                   last_chunk_index, samples, cmd_rx, rec_call, appended,
                   th_base, since_append, chunk_log, early_ok, buffer_lock,
                   cb_pc, cb_frames>>

\* audio.rs:190-195 in the same loop: Stop is received between two commands,
\* and drop(stream) ends the callbacks.
StopBetweenCommands ==
    /\ h_pc = "recv"
    /\ cb_pc = "idle"
    /\ HandleStop
    /\ UNCHANGED lockVars

\* ------------------------------------ AudioRecorder::drain_chunk and ::stop
\* The error drain_chunk returns without waiting (audio.rs:207-211, 217-219);
\* "" when the command is sent and the call waits for the reply.  The send
\* fails when the receiver is gone, i.e. the capture thread has returned.
drain_chunk_error ==
    IF command_tx = 0 THEN "Not recording"
    ELSE IF th_pc = "exited" THEN "Failed to send chunk command"
    ELSE ""

\* stop_recording without the test for a missing handle.
stop_recording_error_NoHandleTest ==
    IF th_pc = "exited" THEN "Failed to send stop command" ELSE ""

\* The same for stop_recording (audio.rs:223-227, 233-235).
stop_recording_error ==
    IF command_tx = 0 THEN "Not recording"
    ELSE IF th_pc = "exited" THEN "Failed to send stop command"
    ELSE ""

\* audio.rs:208-210 / 224-226: the command is queued and caller p waits on a
\* fresh reply channel, holding the recorder.
SendCommand(p, op) ==
    /\ cmd_rx' = Append(cmd_rx, op)
    /\ rec_call' = [who |-> p, op |-> op]
    /\ reply' = NoReply

\* drain_chunk called by p (audio.rs:206-220), up to the wait for the reply.
drain_chunk_call(p) ==
    /\ rec_call = NoCall
    /\ IF drain_chunk_error = ""
       THEN SendCommand(p, "drain")
       ELSE UNCHANGED <<cmd_rx, rec_call, reply>>
    /\ UNCHANGED <<device, command_tx, rec_is_recording, th_gen, th_pc, th_exit,
                   chunk_overlap_seconds, sample_rate, overlap_samples,
                   last_chunk_index, samples, appended, th_base, since_append,
                   chunk_log, early_ok>>

\* stop_recording called by p (audio.rs:222-236), up to the wait for the
\* reply; command_tx.take() empties the handle whether or not the send works.
stop_recording_call(p) ==
    /\ rec_call = NoCall
    /\ command_tx' = 0
    /\ IF stop_recording_error = ""
       THEN SendCommand(p, "stop")
       ELSE UNCHANGED <<cmd_rx, rec_call, reply>>
    /\ UNCHANGED <<device, rec_is_recording, th_gen, th_pc, th_exit,
                   chunk_overlap_seconds, sample_rate, overlap_samples,
                   last_chunk_index, samples, appended, th_base, since_append,
                   chunk_log, early_ok>>

\* A recv() that returns only when the handler has replied, and waits on when
\* the reply sender is dropped unanswered.
ReplyReady_NeverDisconnected(p) ==
    /\ rec_call.who = p
    /\ reply # NoReply

\* reply_rx.recv() returns (audio.rs:213-216 / 229-232): the handler replied,
\* or the thread returned and dropped the reply sender unanswered.
ReplyReady(p) ==
    /\ rec_call.who = p
    /\ reply # NoReply \/ th_pc = "exited"

ReplyResult ==
    IF reply # NoReply THEN reply
    ELSE IF rec_call.op = "drain"
         THEN ErrReply("drain", "Failed to receive audio chunk")
         ELSE ErrReply("stop", "Failed to stop recording")

\* The waiting call of p returns and releases the recorder.
call_return(p) ==
    /\ ReplyReady(p)
    /\ rec_call' = NoCall
    /\ reply' = NoReply
    /\ UNCHANGED <<device, command_tx, rec_is_recording, th_gen, th_pc, th_exit,
                   chunk_overlap_seconds, sample_rate, overlap_samples,
                   last_chunk_index, samples, cmd_rx, appended, th_base,
                   since_append, chunk_log, early_ok>>

\* --------------------------------------------------- AppState::default
Hotkeys == 1..MaxHotkeys
Escapes == 1..MaxEscapes

InitApp ==
    /\ recorder = FALSE
    /\ is_recording = FALSE
    /\ chunk_texts = <<>>
    /\ chunk_control = 0
    /\ escape_registered = FALSE
    /\ hk_pc = [h \in Hotkeys |-> "idle"]
    /\ hk_val = [h \in Hotkeys |-> FALSE]
    /\ hk_has_api = [h \in Hotkeys |-> FALSE]
    /\ hk_ctl = [h \in Hotkeys |-> 0]
    /\ hk_final = [h \in Hotkeys |-> NoChunk]
    /\ hk_texts = [h \in Hotkeys |-> <<>>]
    /\ cn_pc = [c \in Escapes |-> "idle"]
    /\ cn_ctl = [c \in Escapes |-> 0]
    /\ ctl = [s \in Hotkeys |-> "unborn"]
    /\ stop_val = [s \in Hotkeys |-> FALSE]
    /\ ctl_tx = [s \in Hotkeys |-> FALSE]
    /\ chunk_q = [s \in Hotkeys |-> <<>>]
    /\ timer_pc = [s \in Hotkeys |-> "none"]
    /\ timer_chunk = [s \in Hotkeys |-> NoChunk]
    /\ worker_pc = [s \in Hotkeys |-> "none"]
    /\ worker_chunk = [s \in Hotkeys |-> NoChunk]
    /\ hk_spawned = [h \in Hotkeys |-> 0]
    /\ drained = [s \in Hotkeys |-> {}]
    /\ received = [s \in Hotkeys |-> {}]
    /\ flag_session = 0
    /\ hk_session = [h \in Hotkeys |-> 0]

\* ------------------------- drain_chunk_from_recorder and stop_recorder
\* lib.rs:230-242 / 244-256: the call runs on a blocking thread that locks
\* state.recorder for the whole call.  The error returned without waiting.
recorder_drain_error ==
    IF ~recorder THEN "No recorder available" ELSE drain_chunk_error

recorder_stop_error ==
    IF ~recorder THEN "No recorder available" ELSE stop_recording_error

drain_chunk_from_recorder(p) ==
    /\ rec_call = NoCall
    /\ IF recorder THEN drain_chunk_call(p) ELSE UNCHANGED capVars

stop_recorder(p) ==
    /\ rec_call = NoCall
    /\ IF recorder THEN stop_recording_call(p) ELSE UNCHANGED capVars

\* A ChunkControl that is overwritten or replaced by None is dropped with
\* everything it owns: stop_tx, chunk_tx and the two JoinHandles (a dropped
\* JoinHandle detaches its task, it does not stop it).
DropControl(c, old) == IF old = 0 THEN c ELSE [c EXCEPT ![old] = "dropped"]

DropSender(t, old) == IF old = 0 THEN t ELSE [t EXCEPT ![old] = FALSE]

\* lib.rs:580: encode_wav always writes the container header, so the bytes of
\* a drained chunk are never empty.
ChunkIsEmpty(chunk) == FALSE

\* The text the transcription backend returns for a chunk, when it returns
\* one: it names the session and the last sample the chunk holds.
TextOf(s, chunk) == [sess |-> s, last |-> chunk.src[Len(chunk.src)]]

\* ------------------------------------------- the global shortcut handler
\* lib.rs:785-798: a press of the configured hotkey spawns handle_hotkey_press.
PressHotkey(h) ==
    /\ hk_pc[h] = "idle"
    /\ \A g \in Hotkeys : g < h => hk_pc[g] # "idle"
    /\ hk_pc' = [hk_pc EXCEPT ![h] = "read"]
    /\ UNCHANGED <<capVars, client_result, textVars, lockVars, appVars, hk_val, hk_has_api, hk_ctl,
                   hk_final, hk_texts, cnVars, sessVars, histVars>>

\* lib.rs:801-806: a press of Escape, while it is registered, spawns
\* cancel_recording.
PressEscape(c) ==
    /\ escape_registered
    /\ cn_pc[c] = "idle"
    /\ \A g \in Escapes : g < c => cn_pc[g] # "idle"
    /\ cn_pc' = [cn_pc EXCEPT ![c] = "set"]
    /\ UNCHANGED <<capVars, client_result, textVars, lockVars, appVars, hkVars, cn_ctl, sessVars,
                   histVars>>

\* commands.rs:16-21: save_settings replaces the settings; what matters here
\* is whether the new api_url and api_key are both non-empty.
SaveSettings ==
    /\ has_api' = ~has_api
    /\ UNCHANGED <<capVars, client_result, textVars, lockVars, recorder, is_recording, chunk_texts,
                   chunk_control, escape_registered, hkVars, cnVars, sessVars,
                   histVars>>

\* --------------------------------------------- the timer task (lib.rs:570-596)
\* A tick that does not look at the stop signal.
TimerTick_IgnoresStop(s) ==
    /\ timer_pc[s] = "select"
    /\ timer_pc' = [timer_pc EXCEPT ![s] = "drain"]
    /\ UNCHANGED <<capVars, client_result, textVars, lockVars, appVars, hkVars, cnVars, ctl,
                   stop_val, ctl_tx, chunk_q, timer_chunk, worker_pc,
                   worker_chunk, histVars>>

\* lib.rs:574-577: the interval ticks; the task leaves if stop is set.
TimerTick(s) ==
    /\ timer_pc[s] = "select"
    /\ timer_pc' = [timer_pc EXCEPT ![s] = IF stop_val[s] THEN "done" ELSE "drain"]
    /\ UNCHANGED <<capVars, client_result, textVars, lockVars, appVars, hkVars, cnVars, ctl,
                   stop_val, ctl_tx, chunk_q, timer_chunk, worker_pc,
                   worker_chunk, histVars>>

\* lib.rs:589-593: stop_rx.changed() resolves.  With the sender dropped and
\* the value still false the loop goes round with nothing changed.
TimerStopChanged(s) ==
    /\ timer_pc[s] = "select"
    /\ stop_val[s]
    /\ timer_pc' = [timer_pc EXCEPT ![s] = "done"]
    /\ UNCHANGED <<capVars, client_result, textVars, lockVars, appVars, hkVars, cnVars, ctl,
                   stop_val, ctl_tx, chunk_q, timer_chunk, worker_pc,
                   worker_chunk, histVars>>

\* lib.rs:578: drain_chunk_from_recorder is entered; an error that needs no
\* reply (lib.rs:586) sends the task back to the select.
TimerDrainCall(s) ==
    /\ timer_pc[s] = "drain"
    /\ drain_chunk_from_recorder(<<"timer", s>>)
    /\ timer_pc' = [timer_pc EXCEPT ![s] =
                      IF recorder_drain_error = "" THEN "drain_wait" ELSE "select"]
    /\ UNCHANGED <<client_result, textVars, lockVars, appVars, hkVars, cnVars, ctl, stop_val,
                   ctl_tx, chunk_q, timer_chunk, worker_pc, worker_chunk,
                   histVars>>

\* A timer task that breaks out of its loop when a drain fails.
TimerDrainReturn_StopsOnError(s) ==
    /\ timer_pc[s] = "drain_wait"
    /\ call_return(<<"timer", s>>)
    /\ IF ReplyResult.ok
       THEN /\ drained' = [drained EXCEPT ![s] = @ \cup {ReplyResult.chunk}]
            /\ timer_pc' = [timer_pc EXCEPT ![s] = "send"]
            /\ timer_chunk' = [timer_chunk EXCEPT ![s] = ReplyResult.chunk]
       ELSE /\ timer_pc' = [timer_pc EXCEPT ![s] = "done"]
            /\ UNCHANGED <<timer_chunk, drained>>
    /\ UNCHANGED <<client_result, textVars, lockVars, appVars, hkVars, cnVars, ctl, stop_val,
                   ctl_tx, chunk_q, worker_pc, worker_chunk, hk_spawned,
                   flag_session, hk_session, received>>

\* lib.rs:578-587: the drain returns.
TimerDrainReturn(s) ==
    /\ timer_pc[s] = "drain_wait"
    /\ call_return(<<"timer", s>>)
    /\ IF ReplyResult.ok
       THEN /\ drained' = [drained EXCEPT ![s] = @ \cup {ReplyResult.chunk}]
            /\ IF ChunkIsEmpty(ReplyResult.chunk)
               THEN /\ timer_pc' = [timer_pc EXCEPT ![s] = "select"]
                    /\ UNCHANGED timer_chunk
               ELSE /\ timer_pc' = [timer_pc EXCEPT ![s] = "send"]
                    /\ timer_chunk' = [timer_chunk EXCEPT ![s] = ReplyResult.chunk]
       ELSE /\ timer_pc' = [timer_pc EXCEPT ![s] = "select"]
            /\ UNCHANGED <<timer_chunk, drained>>
    /\ UNCHANGED <<client_result, textVars, lockVars, appVars, hkVars, cnVars, ctl, stop_val,
                   ctl_tx, chunk_q, worker_pc, worker_chunk, hk_spawned,
                   flag_session, hk_session,
                   received>>

\* A send that does not wait: with the queue full the chunk is given up (the
\* behaviour of try_send).
TimerSend_DropsWhenFull(s) ==
    /\ timer_pc[s] = "send"
    /\ IF worker_pc[s] = "done"
       THEN /\ timer_pc' = [timer_pc EXCEPT ![s] = "done"]
            /\ UNCHANGED chunk_q
       ELSE /\ chunk_q' = IF Len(chunk_q[s]) < CHUNK_QUEUE_CAPACITY
                          THEN [chunk_q EXCEPT ![s] = Append(@, timer_chunk[s])]
                          ELSE chunk_q
            /\ timer_pc' = [timer_pc EXCEPT ![s] = "select"]
    /\ timer_chunk' = [timer_chunk EXCEPT ![s] = NoChunk]
    /\ UNCHANGED <<capVars, client_result, textVars, lockVars, appVars, hkVars, cnVars, ctl,
                   stop_val, ctl_tx, worker_pc, worker_chunk, histVars>>

\* lib.rs:581-583: timer_tx.send(chunk).await; it waits while the queue is
\* full and fails once the receiver is gone.
TimerSend(s) ==
    /\ timer_pc[s] = "send"
    /\ IF worker_pc[s] = "done"
       THEN /\ timer_pc' = [timer_pc EXCEPT ![s] = "done"]
            /\ UNCHANGED chunk_q
       ELSE /\ Len(chunk_q[s]) < CHUNK_QUEUE_CAPACITY
            /\ chunk_q' = [chunk_q EXCEPT ![s] = Append(@, timer_chunk[s])]
            /\ timer_pc' = [timer_pc EXCEPT ![s] = "select"]
    /\ timer_chunk' = [timer_chunk EXCEPT ![s] = NoChunk]
    /\ UNCHANGED <<capVars, client_result, textVars, lockVars, appVars, hkVars, cnVars, ctl,
                   stop_val, ctl_tx, worker_pc, worker_chunk, histVars>>

\* ------------------------------------------ the consumer task (lib.rs:543-566)
\* lib.rs:544-552: a chunk is received; without an API configured it is
\* skipped.
WorkerRecv(s) ==
    /\ worker_pc[s] = "recv"
    /\ chunk_q[s] # <<>>
    /\ chunk_q' = [chunk_q EXCEPT ![s] = Tail(@)]
    /\ received' = [received EXCEPT ![s] = @ \cup {Head(chunk_q[s])}]
    /\ IF has_api
       THEN /\ worker_pc' = [worker_pc EXCEPT ![s] = "transcribe"]
            /\ worker_chunk' = [worker_chunk EXCEPT ![s] = Head(chunk_q[s])]
       ELSE UNCHANGED <<worker_pc, worker_chunk>>
    /\ UNCHANGED <<capVars, client_result, textVars, lockVars, appVars, hkVars, cnVars, ctl,
                   stop_val, ctl_tx, timer_pc, timer_chunk, hk_spawned, drained,
                   flag_session, hk_session>>

\* A consumer that leaves as soon as the senders are gone, whatever is queued.
WorkerClosed_LeavesQueue(s) ==
    /\ worker_pc[s] = "recv"
    /\ ~ctl_tx[s]
    /\ timer_pc[s] = "done"
    /\ worker_pc' = [worker_pc EXCEPT ![s] = "done"]
    /\ UNCHANGED <<capVars, client_result, textVars, lockVars, appVars, hkVars, cnVars, ctl,
                   stop_val, ctl_tx, chunk_q, timer_pc, timer_chunk,
                   worker_chunk, histVars>>

\* lib.rs:544: recv() returns None: the queue is empty and both senders
\* (control.chunk_tx and the timer's clone) are gone.
WorkerClosed(s) ==
    /\ worker_pc[s] = "recv"
    /\ chunk_q[s] = <<>>
    /\ ~ctl_tx[s]
    /\ timer_pc[s] = "done"
    /\ worker_pc' = [worker_pc EXCEPT ![s] = "done"]
    /\ UNCHANGED <<capVars, client_result, textVars, lockVars, appVars, hkVars, cnVars, ctl,
                   stop_val, ctl_tx, chunk_q, timer_pc, timer_chunk,
                   worker_chunk, histVars>>

\* A consumer that puts each text at the front of the transcript.
WorkerTranscribed_Prepends(s, outcome) ==
    /\ worker_pc[s] = "transcribe"
    /\ chunk_texts' = IF outcome = "text"
                      THEN <<TextOf(s, worker_chunk[s])>> \o chunk_texts
                      ELSE chunk_texts
    /\ worker_pc' = [worker_pc EXCEPT ![s] = "recv"]
    /\ worker_chunk' = [worker_chunk EXCEPT ![s] = NoChunk]
    /\ UNCHANGED <<capVars, client_result, textVars, lockVars, recorder, is_recording, has_api,
                   chunk_control, escape_registered, hkVars, cnVars, ctl,
                   stop_val, ctl_tx, chunk_q, timer_pc, timer_chunk, histVars>>

\* A consumer that gives up at the first failed transcription.
WorkerTranscribed_BreaksOnError(s, outcome) ==
    /\ worker_pc[s] = "transcribe"
    /\ chunk_texts' = IF outcome = "text"
                      THEN Append(chunk_texts, TextOf(s, worker_chunk[s]))
                      ELSE chunk_texts
    /\ worker_pc' = [worker_pc EXCEPT ![s] = IF outcome = "error" THEN "done"
                                                                 ELSE "recv"]
    /\ worker_chunk' = [worker_chunk EXCEPT ![s] = NoChunk]
    /\ UNCHANGED <<capVars, client_result, textVars, lockVars, recorder, is_recording, has_api,
                   chunk_control, escape_registered, hkVars, cnVars, ctl,
                   stop_val, ctl_tx, chunk_q, timer_pc, timer_chunk, histVars>>

\* lib.rs:553-564: transcribe_audio_chunk returns a text, a blank text or an
\* error; only a non-blank text is pushed.
WorkerTranscribed(s, outcome) ==
    /\ worker_pc[s] = "transcribe"
    /\ chunk_texts' = IF outcome = "text"
                      THEN Append(chunk_texts, TextOf(s, worker_chunk[s]))
                      ELSE chunk_texts
    /\ worker_pc' = [worker_pc EXCEPT ![s] = "recv"]
    /\ worker_chunk' = [worker_chunk EXCEPT ![s] = NoChunk]
    /\ UNCHANGED <<capVars, client_result, textVars, lockVars, recorder, is_recording, has_api,
                   chunk_control, escape_registered, hkVars, cnVars, ctl,
                   stop_val, ctl_tx, chunk_q, timer_pc, timer_chunk, histVars>>

\* ------------------------------- handle_hotkey_press (lib.rs:408-683)
\* lib.rs:412-419.
HkRead(h) ==
    /\ hk_pc[h] = "read"
    /\ hk_val' = [hk_val EXCEPT ![h] = is_recording]
    /\ hk_pc' = [hk_pc EXCEPT ![h] = IF is_recording THEN "stop_set" ELSE "start_set"]
    /\ hk_session' = [hk_session EXCEPT ![h] = flag_session]
    /\ UNCHANGED <<capVars, client_result, textVars, lockVars, appVars, hk_has_api, hk_ctl,
                   hk_final, hk_texts, cnVars, sessVars, hk_spawned, drained,
                   received, flag_session>>

\* --- the start path
\* lib.rs:499-501.
HkStartSet(h) ==
    /\ hk_pc[h] = "start_set"
    /\ is_recording' = TRUE
    /\ flag_session' = h
    /\ hk_pc' = [hk_pc EXCEPT ![h] = "start_rec"]
    /\ UNCHANGED <<capVars, client_result, textVars, lockVars, recorder, has_api, chunk_texts,
                   chunk_control, escape_registered, hk_val, hk_has_api,
                   hk_ctl, hk_final, hk_texts, cnVars, sessVars, hk_spawned,
                   drained, received, hk_session>>

\* lib.rs:504-528: under the recorder lock, create the recorder if needed and
\* call start_recording; on Err reset the flag and return.
HkStartRec(h) ==
    /\ hk_pc[h] = "start_rec"
    /\ rec_call = NoCall
    /\ recorder' = TRUE
    /\ start_recording(CHUNK_OVERLAP_SECONDS)
    /\ hk_spawned' = [hk_spawned EXCEPT ![h] = IF th_gen' # th_gen THEN th_gen' ELSE 0]
    /\ IF start_recording_result = "ok"
       THEN /\ hk_pc' = [hk_pc EXCEPT ![h] = "start_clear"]
            /\ UNCHANGED <<is_recording, flag_session>>
       ELSE /\ hk_pc' = [hk_pc EXCEPT ![h] = "done"]
            /\ is_recording' = FALSE
            /\ flag_session' = 0
    /\ UNCHANGED <<client_result, textVars, lockVars, has_api, chunk_texts, chunk_control,
                   escape_registered, hk_val, hk_has_api, hk_ctl, hk_final,
                   hk_texts, cnVars, sessVars, drained, received, hk_session>>

\* lib.rs:530-533.
HkStartClear(h) ==
    /\ hk_pc[h] = "start_clear"
    /\ chunk_texts' = <<>>
    /\ hk_pc' = [hk_pc EXCEPT ![h] = "start_none"]
    /\ UNCHANGED <<capVars, client_result, textVars, lockVars, recorder, is_recording, has_api,
                   chunk_control, escape_registered, hk_val, hk_has_api,
                   hk_ctl, hk_final, hk_texts, cnVars, sessVars, histVars>>

\* lib.rs:534-537: *control = None.
HkStartNone(h) ==
    /\ hk_pc[h] = "start_none"
    /\ chunk_control' = 0
    /\ ctl' = DropControl(ctl, chunk_control)
    /\ ctl_tx' = DropSender(ctl_tx, chunk_control)
    /\ hk_pc' = [hk_pc EXCEPT ![h] = "start_spawn"]
    /\ UNCHANGED <<capVars, client_result, textVars, lockVars, recorder, is_recording, has_api,
                   chunk_texts, escape_registered, hk_val, hk_has_api, hk_ctl,
                   hk_final, hk_texts, cnVars, stop_val, chunk_q, timer_pc,
                   timer_chunk, worker_pc, worker_chunk, histVars>>

\* lib.rs:539-596: the two channels are made and the consumer and the timer
\* are spawned; the ChunkControl to be is held in locals.
HkStartSpawn(h) ==
    /\ hk_pc[h] = "start_spawn"
    /\ ctl' = [ctl EXCEPT ![h] = "building"]
    /\ ctl_tx' = [ctl_tx EXCEPT ![h] = TRUE]
    /\ worker_pc' = [worker_pc EXCEPT ![h] = "recv"]
    /\ timer_pc' = [timer_pc EXCEPT ![h] = "select"]
    /\ hk_pc' = [hk_pc EXCEPT ![h] = "start_store"]
    /\ UNCHANGED <<capVars, client_result, textVars, lockVars, appVars, hk_val, hk_has_api, hk_ctl,
                   hk_final, hk_texts, cnVars, stop_val, chunk_q, timer_chunk,
                   worker_chunk, histVars>>

\* lib.rs:598-606: *control = Some(ChunkControl {..}).
HkStartStore(h) ==
    /\ hk_pc[h] = "start_store"
    /\ chunk_control' = h
    /\ ctl' = [DropControl(ctl, chunk_control) EXCEPT ![h] = "stored"]
    /\ ctl_tx' = DropSender(ctl_tx, chunk_control)
    /\ hk_pc' = [hk_pc EXCEPT ![h] = "start_escape"]
    /\ UNCHANGED <<capVars, client_result, textVars, lockVars, recorder, is_recording, has_api,
                   chunk_texts, escape_registered, hk_val, hk_has_api, hk_ctl,
                   hk_final, hk_texts, cnVars, stop_val, chunk_q, timer_pc,
                   timer_chunk, worker_pc, worker_chunk, histVars>>

\* lib.rs:608-681: Escape is registered and the popup shown.
HkStartEscape(h) ==
    /\ hk_pc[h] = "start_escape"
    /\ escape_registered' = TRUE
    /\ hk_pc' = [hk_pc EXCEPT ![h] = "done"]
    /\ UNCHANGED <<capVars, client_result, textVars, lockVars, recorder, is_recording, has_api,
                   chunk_texts, chunk_control, hk_val, hk_has_api, hk_ctl,
                   hk_final, hk_texts, cnVars, sessVars, histVars>>

\* --- the stop path
\* lib.rs:421-423.
HkStopSet(h) ==
    /\ hk_pc[h] = "stop_set"
    /\ is_recording' = FALSE
    /\ flag_session' = 0
    /\ hk_pc' = [hk_pc EXCEPT ![h] = "stop_unreg"]
    /\ UNCHANGED <<capVars, client_result, textVars, lockVars, recorder, has_api, chunk_texts,
                   chunk_control, escape_registered, hk_val, hk_has_api,
                   hk_ctl, hk_final, hk_texts, cnVars, sessVars, hk_spawned,
                   drained, received, hk_session>>

\* lib.rs:425-433: Escape is unregistered and the settings are read.
HkStopUnregister(h) ==
    /\ hk_pc[h] = "stop_unreg"
    /\ escape_registered' = FALSE
    /\ hk_has_api' = [hk_has_api EXCEPT ![h] = has_api]
    /\ hk_pc' = [hk_pc EXCEPT ![h] = "stop_take"]
    /\ UNCHANGED <<capVars, client_result, textVars, lockVars, recorder, is_recording, has_api,
                   chunk_texts, chunk_control, hk_val, hk_ctl, hk_final,
                   hk_texts, cnVars, sessVars, histVars>>

\* lib.rs:435-440, 457: guard.take().
HkStopTake(h) ==
    /\ hk_pc[h] = "stop_take"
    /\ hk_ctl' = [hk_ctl EXCEPT ![h] = chunk_control]
    /\ chunk_control' = 0
    /\ ctl' = IF chunk_control = 0 THEN ctl
              ELSE [ctl EXCEPT ![chunk_control] = "taken"]
    /\ hk_pc' = [hk_pc EXCEPT ![h] =
                   IF chunk_control = 0 THEN "stop_rec" ELSE "stop_signal"]
    /\ UNCHANGED <<capVars, client_result, textVars, lockVars, recorder, is_recording, has_api,
                   chunk_texts, escape_registered, hk_val, hk_has_api,
                   hk_final, hk_texts, cnVars, stop_val, ctl_tx, chunk_q,
                   timer_pc, timer_chunk, worker_pc, worker_chunk, histVars>>

\* lib.rs:441: control.stop_tx.send(true).
HkStopSignal(h) ==
    /\ hk_pc[h] = "stop_signal"
    /\ stop_val' = [stop_val EXCEPT ![hk_ctl[h]] = TRUE]
    /\ hk_pc' = [hk_pc EXCEPT ![h] = "join_timer"]
    /\ UNCHANGED <<capVars, client_result, textVars, lockVars, appVars, hk_val, hk_has_api, hk_ctl,
                   hk_final, hk_texts, cnVars, ctl, ctl_tx, chunk_q, timer_pc,
                   timer_chunk, worker_pc, worker_chunk, histVars>>

\* control.timer_handle.await returns (lib.rs:442, 267).
TimerJoined(s) == timer_pc[s] = "done"

\* control.worker_handle.await returns (lib.rs:456, 272).
WorkerJoined(s) == worker_pc[s] = "done"

\* lib.rs:442-448.
HkJoinTimer(h) ==
    /\ hk_pc[h] = "join_timer"
    /\ TimerJoined(hk_ctl[h])
    /\ hk_pc' = [hk_pc EXCEPT ![h] =
                   IF hk_has_api[h] THEN "final_drain" ELSE "stop_rec"]
    /\ UNCHANGED <<capVars, client_result, textVars, lockVars, appVars, hk_val, hk_has_api, hk_ctl,
                   hk_final, hk_texts, cnVars, sessVars, histVars>>

\* lib.rs:445: the final drain is entered.
HkFinalDrainCall(h) ==
    /\ hk_pc[h] = "final_drain"
    /\ drain_chunk_from_recorder(<<"hk", h>>)
    /\ hk_pc' = [hk_pc EXCEPT ![h] =
                   IF recorder_drain_error = "" THEN "final_wait" ELSE "stop_rec"]
    /\ UNCHANGED <<client_result, textVars, lockVars, appVars, hk_val, hk_has_api, hk_ctl,
                   hk_final, hk_texts, cnVars, sessVars, histVars>>

\* lib.rs:445: the final drain returns; .ok() keeps the chunk of an Ok.
HkFinalDrainReturn(h) ==
    /\ hk_pc[h] = "final_wait"
    /\ call_return(<<"hk", h>>)
    /\ IF ReplyResult.ok
       THEN /\ hk_final' = [hk_final EXCEPT ![h] = ReplyResult.chunk]
            /\ drained' = [drained EXCEPT ![hk_ctl[h]] = @ \cup {ReplyResult.chunk}]
       ELSE UNCHANGED <<hk_final, drained>>
    /\ hk_pc' = [hk_pc EXCEPT ![h] = "stop_rec"]
    /\ UNCHANGED <<client_result, textVars, lockVars, appVars, hk_val, hk_has_api, hk_ctl,
                   hk_texts, cnVars, sessVars, hk_spawned, received,
                   flag_session, hk_session>>

\* Where the stop path goes after stop_recorder (lib.rs:450-452, 458-461).
AfterStopRecorder(h) ==
    IF hk_ctl[h] # 0 THEN "send_final"
    ELSE IF hk_has_api[h] THEN "collect" ELSE "done"

\* lib.rs:450 / 458: stop_recorder is entered.
HkStopRecCall(h) ==
    /\ hk_pc[h] = "stop_rec"
    /\ stop_recorder(<<"hk", h>>)
    /\ hk_pc' = [hk_pc EXCEPT ![h] =
                   IF recorder_stop_error = "" THEN "stop_wait"
                   ELSE AfterStopRecorder(h)]
    /\ UNCHANGED <<client_result, textVars, lockVars, appVars, hk_val, hk_has_api, hk_ctl,
                   hk_final, hk_texts, cnVars, sessVars, histVars>>

\* lib.rs:450 / 458: stop_recorder returns; its result is ignored.
HkStopRecReturn(h) ==
    /\ hk_pc[h] = "stop_wait"
    /\ call_return(<<"hk", h>>)
    /\ hk_pc' = [hk_pc EXCEPT ![h] = AfterStopRecorder(h)]
    /\ UNCHANGED <<client_result, textVars, lockVars, appVars, hk_val, hk_has_api, hk_ctl,
                   hk_final, hk_texts, cnVars, sessVars, histVars>>

\* lib.rs:452-454: the final chunk, if any, is sent to the consumer; the send
\* waits while the queue is full and its error is ignored.
HkSendFinal(h) ==
    /\ hk_pc[h] = "send_final"
    /\ IF hk_final[h] = NoChunk \/ worker_pc[hk_ctl[h]] = "done"
       THEN UNCHANGED chunk_q
       ELSE /\ Len(chunk_q[hk_ctl[h]]) < CHUNK_QUEUE_CAPACITY
            /\ chunk_q' = [chunk_q EXCEPT ![hk_ctl[h]] = Append(@, hk_final[h])]
    /\ hk_pc' = [hk_pc EXCEPT ![h] = "drop_tx"]
    /\ UNCHANGED <<capVars, client_result, textVars, lockVars, appVars, hk_val, hk_has_api, hk_ctl,
                   hk_final, hk_texts, cnVars, ctl, stop_val, ctl_tx, timer_pc,
                   timer_chunk, worker_pc, worker_chunk, histVars>>

\* lib.rs:455: drop(control.chunk_tx).
HkDropTx(h) ==
    /\ hk_pc[h] = "drop_tx"
    /\ ctl_tx' = [ctl_tx EXCEPT ![hk_ctl[h]] = FALSE]
    /\ hk_pc' = [hk_pc EXCEPT ![h] = "join_worker"]
    /\ UNCHANGED <<capVars, client_result, textVars, lockVars, appVars, hk_val, hk_has_api, hk_ctl,
                   hk_final, hk_texts, cnVars, ctl, stop_val, chunk_q,
                   timer_pc, timer_chunk, worker_pc, worker_chunk, histVars>>

\* lib.rs:456-464: the consumer is joined, the rest of the ChunkControl goes
\* out of scope, and without an API the handler reports it and returns.
HkJoinWorker(h) ==
    /\ hk_pc[h] = "join_worker"
    /\ WorkerJoined(hk_ctl[h])
    /\ ctl' = [ctl EXCEPT ![hk_ctl[h]] = "joined"]
    /\ hk_pc' = [hk_pc EXCEPT ![h] = IF hk_has_api[h] THEN "collect" ELSE "done"]
    /\ UNCHANGED <<capVars, client_result, textVars, lockVars, appVars, hk_val, hk_has_api, hk_ctl,
                   hk_final, hk_texts, cnVars, stop_val, ctl_tx, chunk_q,
                   timer_pc, timer_chunk, worker_pc, worker_chunk, histVars>>

\* A stop path that copies the transcript and leaves it in place.
HkCollect_KeepsTexts(h) ==
    /\ hk_pc[h] = "collect"
    /\ hk_texts' = [hk_texts EXCEPT ![h] = chunk_texts]
    /\ hk_pc' = [hk_pc EXCEPT ![h] = "done"]
    /\ UNCHANGED <<capVars, client_result, textVars, lockVars, appVars, hk_val, hk_has_api,
                   hk_ctl, hk_final, cnVars, sessVars, histVars>>

\* lib.rs:466-471: the session transcript is taken and cleared.
HkCollect(h) ==
    /\ hk_pc[h] = "collect"
    /\ hk_texts' = [hk_texts EXCEPT ![h] = chunk_texts]
    /\ chunk_texts' = <<>>
    /\ hk_pc' = [hk_pc EXCEPT ![h] = "done"]
    /\ UNCHANGED <<capVars, client_result, textVars, lockVars, recorder, is_recording, has_api,
                   chunk_control, escape_registered, hk_val, hk_has_api,
                   hk_ctl, hk_final, cnVars, sessVars, histVars>>

\* --------------------------------------- cancel_recording (lib.rs:385-406)
\* lib.rs:389-391.
CnSet(c) ==
    /\ cn_pc[c] = "set"
    /\ is_recording' = FALSE
    /\ flag_session' = 0
    /\ cn_pc' = [cn_pc EXCEPT ![c] = "take"]
    /\ UNCHANGED <<capVars, client_result, textVars, lockVars, recorder, has_api, chunk_texts,
                   chunk_control, escape_registered, hkVars, cn_ctl, sessVars,
                   hk_spawned, drained, received, hk_session>>

\* shutdown_chunking, lib.rs:259-265: guard.take().
CnTake(c) ==
    /\ cn_pc[c] = "take"
    /\ cn_ctl' = [cn_ctl EXCEPT ![c] = chunk_control]
    /\ chunk_control' = 0
    /\ ctl' = IF chunk_control = 0 THEN ctl
              ELSE [ctl EXCEPT ![chunk_control] = "taken"]
    /\ cn_pc' = [cn_pc EXCEPT ![c] = IF chunk_control = 0 THEN "clear" ELSE "signal"]
    /\ UNCHANGED <<capVars, client_result, textVars, lockVars, recorder, is_recording, has_api,
                   chunk_texts, escape_registered, hkVars, stop_val, ctl_tx,
                   chunk_q, timer_pc, timer_chunk, worker_pc, worker_chunk,
                   histVars>>

\* shutdown_chunking, lib.rs:266.
CnSignal(c) ==
    /\ cn_pc[c] = "signal"
    /\ stop_val' = [stop_val EXCEPT ![cn_ctl[c]] = TRUE]
    /\ cn_pc' = [cn_pc EXCEPT ![c] = "join_timer"]
    /\ UNCHANGED <<capVars, client_result, textVars, lockVars, appVars, hkVars, cn_ctl, ctl, ctl_tx,
                   chunk_q, timer_pc, timer_chunk, worker_pc, worker_chunk,
                   histVars>>

\* shutdown_chunking, lib.rs:267-271: the timer is joined; final_chunk is
\* None on this path, so nothing is sent, and chunk_tx is dropped.
CnJoinTimer(c) ==
    /\ cn_pc[c] = "join_timer"
    /\ TimerJoined(cn_ctl[c])
    /\ ctl_tx' = [ctl_tx EXCEPT ![cn_ctl[c]] = FALSE]
    /\ cn_pc' = [cn_pc EXCEPT ![c] = "join_worker"]
    /\ UNCHANGED <<capVars, client_result, textVars, lockVars, appVars, hkVars, cn_ctl, ctl,
                   stop_val, chunk_q, timer_pc, timer_chunk, worker_pc,
                   worker_chunk, histVars>>

\* shutdown_chunking, lib.rs:272-273.
CnJoinWorker(c) ==
    /\ cn_pc[c] = "join_worker"
    /\ WorkerJoined(cn_ctl[c])
    /\ ctl' = [ctl EXCEPT ![cn_ctl[c]] = "joined"]
    /\ cn_pc' = [cn_pc EXCEPT ![c] = "clear"]
    /\ UNCHANGED <<capVars, client_result, textVars, lockVars, appVars, hkVars, cn_ctl, stop_val,
                   ctl_tx, chunk_q, timer_pc, timer_chunk, worker_pc,
                   worker_chunk, histVars>>

\* shutdown_chunking, lib.rs:275-279: the transcript is cleared; the caller
\* discards what was collected (lib.rs:393).
CnClear(c) ==
    /\ cn_pc[c] = "clear"
    /\ chunk_texts' = <<>>
    /\ cn_pc' = [cn_pc EXCEPT ![c] = "stop_rec"]
    /\ UNCHANGED <<capVars, client_result, textVars, lockVars, recorder, is_recording, has_api,
                   chunk_control, escape_registered, hkVars, cn_ctl, sessVars,
                   histVars>>

\* lib.rs:394: stop_recorder is entered.
CnStopRecCall(c) ==
    /\ cn_pc[c] = "stop_rec"
    /\ stop_recorder(<<"cn", c>>)
    /\ cn_pc' = [cn_pc EXCEPT ![c] =
                   IF recorder_stop_error = "" THEN "stop_wait" ELSE "unreg"]
    /\ UNCHANGED <<client_result, textVars, lockVars, appVars, hkVars, cn_ctl, sessVars, histVars>>

\* lib.rs:394: stop_recorder returns; its result is ignored.
CnStopRecReturn(c) ==
    /\ cn_pc[c] = "stop_wait"
    /\ call_return(<<"cn", c>>)
    /\ cn_pc' = [cn_pc EXCEPT ![c] = "unreg"]
    /\ UNCHANGED <<client_result, textVars, lockVars, appVars, hkVars, cn_ctl, sessVars, histVars>>

\* lib.rs:396-405: Escape is unregistered and the window hidden.
CnUnregister(c) ==
    /\ cn_pc[c] = "unreg"
    /\ escape_registered' = FALSE
    /\ cn_pc' = [cn_pc EXCEPT ![c] = "done"]
    /\ UNCHANGED <<capVars, client_result, textVars, lockVars, recorder, is_recording, has_api,
                   chunk_texts, chunk_control, hkVars, cn_ctl, sessVars,
                   histVars>>

\* ------------------------------------------------------------------- Spec
Outcomes == {"text", "blank", "error"}

\* Spec runs on a device of one native rate, or on one that fails to start.
OrchDevices == {d \in Devices : d.status = "ok" => d.rate = OrchRate}

Init ==
    /\ device \in OrchDevices
    /\ InitRecorder
    /\ client_result = NoReply
    /\ InitTextIdle
    /\ InitApp
    /\ has_api \in BOOLEAN

Next ==
    \/ \E h \in Hotkeys : PressHotkey(h)
    \/ \E c \in Escapes : PressEscape(c)
    \/ SaveSettings
    \/ \E h \in Hotkeys : HkRead(h)
    \/ \E h \in Hotkeys : HkStartSet(h)
    \/ \E h \in Hotkeys : HkStartRec(h)
    \/ \E h \in Hotkeys : HkStartClear(h)
    \/ \E h \in Hotkeys : HkStartNone(h)
    \/ \E h \in Hotkeys : HkStartSpawn(h)
    \/ \E h \in Hotkeys : HkStartStore(h)
    \/ \E h \in Hotkeys : HkStartEscape(h)
    \/ \E h \in Hotkeys : HkStopSet(h)
    \/ \E h \in Hotkeys : HkStopUnregister(h)
    \/ \E h \in Hotkeys : HkStopTake(h)
    \/ \E h \in Hotkeys : HkStopSignal(h)
    \/ \E h \in Hotkeys : HkJoinTimer(h)
    \/ \E h \in Hotkeys : HkFinalDrainCall(h)
    \/ \E h \in Hotkeys : HkFinalDrainReturn(h)
    \/ \E h \in Hotkeys : HkStopRecCall(h)
    \/ \E h \in Hotkeys : HkStopRecReturn(h)
    \/ \E h \in Hotkeys : HkSendFinal(h)
    \/ \E h \in Hotkeys : HkDropTx(h)
    \/ \E h \in Hotkeys : HkJoinWorker(h)
    \/ \E h \in Hotkeys : HkCollect(h)
    \/ \E c \in Escapes : CnSet(c)
    \/ \E c \in Escapes : CnTake(c)
    \/ \E c \in Escapes : CnSignal(c)
    \/ \E c \in Escapes : CnJoinTimer(c)
    \/ \E c \in Escapes : CnJoinWorker(c)
    \/ \E c \in Escapes : CnClear(c)
    \/ \E c \in Escapes : CnStopRecCall(c)
    \/ \E c \in Escapes : CnStopRecReturn(c)
    \/ \E c \in Escapes : CnUnregister(c)
    \/ \E s \in Hotkeys : TimerTick(s)
    \/ \E s \in Hotkeys : TimerStopChanged(s)
    \/ \E s \in Hotkeys : TimerDrainCall(s)
    \/ \E s \in Hotkeys : TimerDrainReturn(s)
    \/ \E s \in Hotkeys : TimerSend(s)
    \/ \E s \in Hotkeys : WorkerRecv(s)
    \/ \E s \in Hotkeys : WorkerClosed(s)
    \/ \E s \in Hotkeys, o \in Outcomes : WorkerTranscribed(s, o)
    \/ CaptureThreadStartup /\ UNCHANGED <<client_result, textVars, lockVars, orchVars>>
    \/ (\E n \in 1..MaxBlock : Callback(n, MaxSessionSamples))
          /\ UNCHANGED <<client_result, textVars, lockVars, orchVars>>
    \/ HandleDrainChunk /\ UNCHANGED <<client_result, textVars, lockVars, orchVars>>
    \/ HandleStop /\ UNCHANGED <<client_result, textVars, lockVars, orchVars>>

Spec == Init /\ [][Next]_vars

\* ------------------------------------------------------------ SpecSession
\* The same program with the keys pressed one at a time: a press comes only
\* when no handle_hotkey_press and no cancel_recording is in progress, and the
\* device delivers up to MaxSamples frames.
HandlersQuiet ==
    /\ \A h \in Hotkeys : hk_pc[h] \in {"idle", "done"}
    /\ \A c \in Escapes : cn_pc[c] \in {"idle", "done"}

PressHotkeyQuiet(h) == HandlersQuiet /\ PressHotkey(h)

PressEscapeQuiet(c) == HandlersQuiet /\ PressEscape(c)

SessionStep(limit) ==
    \/ \E h \in Hotkeys : PressHotkeyQuiet(h)
    \/ \E c \in Escapes : PressEscapeQuiet(c)
    \/ \E h \in Hotkeys : HkRead(h)
    \/ \E h \in Hotkeys : HkStartSet(h)
    \/ \E h \in Hotkeys : HkStartRec(h)
    \/ \E h \in Hotkeys : HkStartClear(h)
    \/ \E h \in Hotkeys : HkStartNone(h)
    \/ \E h \in Hotkeys : HkStartSpawn(h)
    \/ \E h \in Hotkeys : HkStartStore(h)
    \/ \E h \in Hotkeys : HkStartEscape(h)
    \/ \E h \in Hotkeys : HkStopSet(h)
    \/ \E h \in Hotkeys : HkStopUnregister(h)
    \/ \E h \in Hotkeys : HkStopTake(h)
    \/ \E h \in Hotkeys : HkStopSignal(h)
    \/ \E h \in Hotkeys : HkJoinTimer(h)
    \/ \E h \in Hotkeys : HkFinalDrainCall(h)
    \/ \E h \in Hotkeys : HkFinalDrainReturn(h)
    \/ \E h \in Hotkeys : HkStopRecCall(h)
    \/ \E h \in Hotkeys : HkStopRecReturn(h)
    \/ \E h \in Hotkeys : HkSendFinal(h)
    \/ \E h \in Hotkeys : HkDropTx(h)
    \/ \E h \in Hotkeys : HkJoinWorker(h)
    \/ \E h \in Hotkeys : HkCollect(h)
    \/ \E c \in Escapes : CnSet(c)
    \/ \E c \in Escapes : CnTake(c)
    \/ \E c \in Escapes : CnSignal(c)
    \/ \E c \in Escapes : CnJoinTimer(c)
    \/ \E c \in Escapes : CnJoinWorker(c)
    \/ \E c \in Escapes : CnClear(c)
    \/ \E c \in Escapes : CnStopRecCall(c)
    \/ \E c \in Escapes : CnStopRecReturn(c)
    \/ \E c \in Escapes : CnUnregister(c)
    \/ \E s \in Hotkeys : TimerTick(s)
    \/ \E s \in Hotkeys : TimerStopChanged(s)
    \/ \E s \in Hotkeys : TimerDrainCall(s)
    \/ \E s \in Hotkeys : TimerDrainReturn(s)
    \/ \E s \in Hotkeys : TimerSend(s)
    \/ \E s \in Hotkeys : WorkerRecv(s)
    \/ \E s \in Hotkeys : WorkerClosed(s)
    \/ \E s \in Hotkeys, o \in Outcomes : WorkerTranscribed(s, o)
    \/ CaptureThreadStartup /\ UNCHANGED <<client_result, textVars, lockVars, orchVars>>
    \/ (\E n \in 1..MaxBlock : Callback(n, limit))
          /\ UNCHANGED <<client_result, textVars, lockVars, orchVars>>
    \/ HandleDrainChunk /\ UNCHANGED <<client_result, textVars, lockVars, orchVars>>
    \/ HandleStop /\ UNCHANGED <<client_result, textVars, lockVars, orchVars>>

NextSession == SaveSettings \/ SessionStep(MaxSessionSamples)

SpecSession == Init /\ [][NextSession]_vars

\* The scheduling of the runtime: a task or thread that can take a step, and
\* a handler that can, eventually takes it.
SessionFairness ==
    /\ \A h \in Hotkeys :
          /\ WF_vars(HkRead(h)) /\ WF_vars(HkStartSet(h)) /\ WF_vars(HkStartRec(h))
          /\ WF_vars(HkStartClear(h)) /\ WF_vars(HkStartNone(h))
          /\ WF_vars(HkStartSpawn(h)) /\ WF_vars(HkStartStore(h))
          /\ WF_vars(HkStartEscape(h)) /\ WF_vars(HkStopSet(h))
          /\ WF_vars(HkStopUnregister(h)) /\ WF_vars(HkStopTake(h))
          /\ WF_vars(HkStopSignal(h)) /\ WF_vars(HkJoinTimer(h))
          /\ WF_vars(HkFinalDrainCall(h)) /\ WF_vars(HkFinalDrainReturn(h))
          /\ WF_vars(HkStopRecCall(h)) /\ WF_vars(HkStopRecReturn(h))
          /\ WF_vars(HkSendFinal(h)) /\ WF_vars(HkDropTx(h))
          /\ WF_vars(HkJoinWorker(h)) /\ WF_vars(HkCollect(h))
    /\ \A c \in Escapes :
          /\ WF_vars(CnSet(c)) /\ WF_vars(CnTake(c)) /\ WF_vars(CnSignal(c))
          /\ WF_vars(CnJoinTimer(c)) /\ WF_vars(CnJoinWorker(c))
          /\ WF_vars(CnClear(c)) /\ WF_vars(CnStopRecCall(c))
          /\ WF_vars(CnStopRecReturn(c)) /\ WF_vars(CnUnregister(c))
    /\ \A s \in Hotkeys :
          /\ WF_vars(TimerTick(s)) /\ WF_vars(TimerStopChanged(s))
          /\ WF_vars(TimerDrainCall(s)) /\ WF_vars(TimerDrainReturn(s))
          /\ WF_vars(TimerSend(s)) /\ WF_vars(WorkerRecv(s))
          /\ WF_vars(WorkerClosed(s))
          /\ WF_vars(\E o \in Outcomes : WorkerTranscribed(s, o))
    /\ WF_vars(CaptureThreadStartup /\ UNCHANGED <<client_result, textVars, lockVars, orchVars>>)
    /\ WF_vars(HandleDrainChunk /\ UNCHANGED <<client_result, textVars, lockVars, orchVars>>)
    /\ WF_vars(HandleStop /\ UNCHANGED <<client_result, textVars, lockVars, orchVars>>)

SpecSessionFair == Init /\ [][NextSession]_vars /\ SessionFairness

\* ---------------------------------------------------------------- SpecQueue
\* The same with a working device that delivers up to MaxSamples frames and
\* with the API configured throughout, so that the queue can fill.
InitQueue ==
    /\ Init
    /\ device.status = "ok"
    /\ has_api = TRUE

NextQueue == SessionStep(MaxSamples)

SpecQueue == InitQueue /\ [][NextQueue]_vars

\* ----------------------------------------------------------- SpecDownsample
\* The same on a device whose native rate is 48000 Hz, three times the
\* target rate, so that every drained chunk is decimated before it is encoded.
InitDownsample ==
    /\ device = [status |-> "ok", rate |-> 48000]
    /\ InitRecorder
    /\ client_result = NoReply
    /\ InitTextIdle
    /\ InitApp
    /\ has_api = TRUE

SpecDownsample == InitDownsample /\ [][NextQueue]_vars

\* ------------------------------------------------------------ SpecCapture
\* One caller driving the recorder through its three public methods.
ClientStart(overlap_seconds) ==
    /\ rec_call = NoCall
    /\ start_recording(overlap_seconds)
    /\ client_result' = IF start_recording_result = "ok"
                        THEN OkReply("start", NoChunk)
                        ELSE ErrReply("start", start_recording_result)
    /\ UNCHANGED <<textVars, lockVars, orchVars>>

ClientDrain ==
    /\ drain_chunk_call(<<"client", 0>>)
    /\ client_result' = IF drain_chunk_error = "" THEN NoReply
                        ELSE ErrReply("drain", drain_chunk_error)
    /\ UNCHANGED <<textVars, lockVars, orchVars>>

ClientStop ==
    /\ stop_recording_call(<<"client", 0>>)
    /\ client_result' = IF stop_recording_error = "" THEN NoReply
                        ELSE ErrReply("stop", stop_recording_error)
    /\ UNCHANGED <<textVars, lockVars, orchVars>>

ClientReturn ==
    /\ call_return(<<"client", 0>>)
    /\ client_result' = ReplyResult
    /\ UNCHANGED <<textVars, lockVars, orchVars>>

InitCapture ==
    /\ device \in Devices
    /\ InitRecorder
    /\ client_result = NoReply
    /\ InitTextIdle
    /\ InitApp
    /\ has_api = TRUE

NextCapture ==
    \/ \E o \in 0..MaxOverlapSeconds : ClientStart(o)
    \/ ClientDrain
    \/ ClientStop
    \/ ClientReturn
    \/ CaptureThreadStartup /\ UNCHANGED <<client_result, textVars, lockVars, orchVars>>
    \/ (\E n \in 1..MaxBlock : Callback(n, MaxSamples))
          /\ UNCHANGED <<client_result, textVars, lockVars, orchVars>>
    \/ HandleDrainChunk /\ UNCHANGED <<client_result, textVars, lockVars, orchVars>>
    \/ HandleStop /\ UNCHANGED <<client_result, textVars, lockVars, orchVars>>

SpecCapture == InitCapture /\ [][NextCapture]_vars

\* The capture thread and a caller blocked in recv() are threads of their
\* own that the scheduler keeps running: each takes its next step when it can.
\* The caller's decisions to call and the arrival of audio are not forced.
CaptureFairness ==
    /\ WF_vars(CaptureThreadStartup /\ UNCHANGED <<client_result, textVars, lockVars, orchVars>>)
    /\ WF_vars(HandleDrainChunk /\ UNCHANGED <<client_result, textVars, lockVars, orchVars>>)
    /\ WF_vars(HandleStop /\ UNCHANGED <<client_result, textVars, lockVars, orchVars>>)
    /\ WF_vars(ClientReturn)

SpecCaptureFair == InitCapture /\ [][NextCapture]_vars /\ CaptureFairness

\* ---------------------------------------------------------------- SpecLock
\* The caller of SpecCapture with the capture thread and the callback taken
\* step by step, on a working device.
InitLock ==
    /\ InitCapture
    /\ device.status = "ok"

NextLock ==
    \/ \E o \in 0..MaxOverlapSeconds : ClientStart(o)
    \/ ClientDrain
    \/ ClientStop
    \/ ClientReturn
    \/ CaptureThreadStartup /\ UNCHANGED <<client_result, textVars, lockVars, orchVars>>
    \/ (\E n \in 1..MaxBlock : CallbackFlag(n, MaxSessionSamples))
          /\ UNCHANGED <<client_result, textVars, orchVars>>
    \/ CallbackLock /\ UNCHANGED <<client_result, textVars, orchVars>>
    \/ CallbackPush /\ UNCHANGED <<client_result, textVars, orchVars>>
    \/ CallbackLevel /\ UNCHANGED <<client_result, textVars, orchVars>>
    \/ DrainLock /\ UNCHANGED <<client_result, textVars, orchVars>>
    \/ DrainWindow /\ UNCHANGED <<client_result, textVars, orchVars>>
    \/ DrainNoAudio /\ UNCHANGED <<client_result, textVars, orchVars>>
    \/ DrainDrop /\ UNCHANGED <<client_result, textVars, orchVars>>
    \/ DrainEncodeSend /\ UNCHANGED <<client_result, textVars, orchVars>>
    \/ StopBetweenCommands /\ UNCHANGED <<client_result, textVars, orchVars>>

\* The capture thread and the driver's callback thread keep running, and a
\* thread waiting in lock() gets the mutex once it is free often enough.  No
\* step of the caller is forced: it may never call and never pick up a reply.
LockFairness ==
    /\ WF_vars(CaptureThreadStartup /\ UNCHANGED <<client_result, textVars, lockVars, orchVars>>)
    /\ SF_vars(CallbackLock /\ UNCHANGED <<client_result, textVars, orchVars>>)
    /\ WF_vars(CallbackPush /\ UNCHANGED <<client_result, textVars, orchVars>>)
    /\ WF_vars(CallbackLevel /\ UNCHANGED <<client_result, textVars, orchVars>>)
    /\ SF_vars(DrainLock /\ UNCHANGED <<client_result, textVars, orchVars>>)
    /\ WF_vars(DrainWindow /\ UNCHANGED <<client_result, textVars, orchVars>>)
    /\ WF_vars(DrainNoAudio /\ UNCHANGED <<client_result, textVars, orchVars>>)
    /\ WF_vars(DrainDrop /\ UNCHANGED <<client_result, textVars, orchVars>>)
    /\ WF_vars(DrainEncodeSend /\ UNCHANGED <<client_result, textVars, orchVars>>)

SpecLock == InitLock /\ [][NextLock]_vars /\ LockFairness

\* --------------------------------------------------------------- SpecText
\* One caller that picks its fragments and calls one text function on them.
idleVars == <<capVars, client_result, lockVars, orchVars>>

\* The caller holds a list of fragments (DOMAIN text_in = {"fragments"}; a
\* list of one is a text), or a text and the settings of the post-processing.
CallMergeWithOverlap ==
    /\ text_fn = "none"
    /\ DOMAIN text_in = {"fragments"}
    /\ Len(text_in.fragments) = 2
    /\ text_fn' = "merge_with_overlap"
    /\ text_ret' = merge_with_overlap(text_in.fragments[1], text_in.fragments[2])
    /\ UNCHANGED <<text_in, idleVars>>

CallTrimTrailingWords ==
    /\ text_fn = "none"
    /\ DOMAIN text_in = {"fragments"}
    /\ Len(text_in.fragments) = 1
    /\ text_fn' = "trim_trailing_words"
    /\ text_ret' = trim_trailing_words(text_in.fragments[1], CHUNK_TRIM_WORDS)
    /\ UNCHANGED <<text_in, idleVars>>

CallCollapseRepeatedPhrases ==
    /\ text_fn = "none"
    /\ DOMAIN text_in = {"fragments"}
    /\ Len(text_in.fragments) = 1
    /\ text_fn' = "collapse_repeated_phrases"
    /\ text_ret' = collapse_repeated_phrases(text_in.fragments[1])
    /\ UNCHANGED <<text_in, idleVars>>

CallPostprocessingCollapseRepeatedPhrases ==
    /\ text_fn = "none"
    /\ DOMAIN text_in = {"fragments"}
    /\ Len(text_in.fragments) = 1
    /\ text_fn' = "postprocessing::collapse_repeated_phrases"
    /\ text_ret' = postprocessing_collapse_repeated_phrases(text_in.fragments[1])
    /\ UNCHANGED <<text_in, idleVars>>

CallCollapseDuplicateWords ==
    /\ text_fn = "none"
    /\ DOMAIN text_in = {"fragments"}
    /\ Len(text_in.fragments) = 1
    /\ text_fn' = "collapse_duplicate_words"
    /\ text_ret' = collapse_duplicate_words(text_in.fragments[1])
    /\ UNCHANGED <<text_in, idleVars>>

\* lib.rs:226-227 on a text already merged.
CallDedupePass ==
    /\ text_fn = "none"
    /\ DOMAIN text_in = {"fragments"}
    /\ Len(text_in.fragments) = 1
    /\ text_fn' = "dedupe_pass"
    /\ text_ret' = dedupe_pass(text_in.fragments[1])
    /\ UNCHANGED <<text_in, idleVars>>

CallDedupeRepeatedPhrases ==
    /\ text_fn = "none"
    /\ DOMAIN text_in = {"fragments"}
    /\ Len(text_in.fragments) = 1
    /\ text_fn' = "dedupe_repeated_phrases"
    /\ text_ret' = dedupe_repeated_phrases(text_in.fragments[1])
    /\ UNCHANGED <<text_in, idleVars>>

CallCapitalizeSentences ==
    /\ text_fn = "none"
    /\ DOMAIN text_in = {"fragments"}
    /\ Len(text_in.fragments) = 1
    /\ text_fn' = "capitalize_sentences"
    /\ text_ret' = capitalize_sentences(text_in.fragments[1])
    /\ UNCHANGED <<text_in, idleVars>>

CallApplyPostprocessing ==
    /\ text_fn = "none"
    /\ DOMAIN text_in = {"fragments", "settings"}
    /\ text_fn' = "apply_postprocessing"
    /\ text_ret' = apply_postprocessing(text_in.fragments[1], text_in.settings)
    /\ UNCHANGED <<text_in, idleVars>>

\* audio.rs:182; text_ret holds the Vec<i16> it returns.
CallResample ==
    /\ text_fn = "none"
    /\ DOMAIN text_in = {"samples", "from_rate", "to_rate"}
    /\ text_fn' = "resample"
    /\ text_ret' = resample(text_in.samples, text_in.from_rate, text_in.to_rate)
    /\ UNCHANGED <<text_in, idleVars>>

CallConsolidateChunkTexts ==
    /\ text_fn = "none"
    /\ DOMAIN text_in = {"fragments"}
    /\ text_fn' = "consolidate_chunk_texts"
    /\ text_ret' = consolidate_chunk_texts(text_in.fragments)
    /\ UNCHANGED <<text_in, idleVars>>

InitText ==
    /\ device = [status |-> "no_device", rate |-> 0]
    /\ InitRecorder
    /\ client_result = NoReply
    /\ InitApp
    /\ has_api = FALSE
    /\ text_in \in TextInputs
    /\ text_fn = "none"
    /\ text_ret = <<>>

NextText ==
    \/ CallMergeWithOverlap
    \/ CallTrimTrailingWords
    \/ CallCollapseRepeatedPhrases
    \/ CallPostprocessingCollapseRepeatedPhrases
    \/ CallCollapseDuplicateWords
    \/ CallDedupePass
    \/ CallDedupeRepeatedPhrases
    \/ CallCapitalizeSentences
    \/ CallApplyPostprocessing
    \/ CallResample
    \/ CallConsolidateChunkTexts

SpecText == InitText /\ [][NextText]_vars

\* Sanity: while the flag is clear no capture thread is alive.
TypeCapture ==
    /\ command_tx \in {0, th_gen}
    /\ th_pc \in {"none", "starting", "running", "exited"}
    /\ (~rec_is_recording) => th_pc \in {"none", "exited"}
    /\ Len(cmd_rx) <= 1
    /\ last_chunk_index \in 0..MaxSamples
    /\ since_append \in 0..2

\* ================================================= claims on SpecCapture
\* A step in which the capture thread answers a DrainChunk command.
DrainHandled == reply = NoReply /\ reply'.op = "drain"

\* No sample has been appended since the previous drain command was handled,
\* or since the session began.
NoAppendSince == since_append >= 1 \/ appended = th_base

recorderState == <<command_tx, rec_is_recording, th_gen, th_pc, th_exit,
                   chunk_overlap_seconds, sample_rate, overlap_samples,
                   last_chunk_index, samples, cmd_rx, reply, rec_call>>

\* C4: start_recording called while the recorder is already recording returns
\* Ok and changes nothing: no thread is spawned and the command channel, the
\* flag, the buffer and the cursor of the running session stay as they are.
C4_StartWhileRecordingIsNoOp ==
    [][(rec_is_recording /\ \E o \in 0..MaxOverlapSeconds : ClientStart(o))
        => /\ UNCHANGED recorderState
           /\ client_result' = OkReply("start", NoChunk)]_vars

C4_Witness ==
    /\ early_ok
    /\ client_result = OkReply("start", NoChunk)
    /\ th_pc = "running"
    /\ samples # <<>>

\* C6: a drain command handled with no sample appended since the previous
\* drain command (or since the session began) is answered "No new audio" and
\* leaves the buffer and the cursor unchanged.
C6_SecondDrainNoNewAudio ==
    [][(DrainHandled /\ NoAppendSince)
        => /\ reply' = ErrReply("drain", "No new audio")
           /\ UNCHANGED <<samples, last_chunk_index>>]_vars

C6_Witness ==
    /\ since_append = 2
    /\ reply = ErrReply("drain", "No new audio")
    /\ chunk_log # <<>>
    /\ samples # <<>>

\* C7: the buffer length right after every drain is min(overlap_samples,
\* length before the drain); with overlap 0 a successful drain leaves the
\* buffer empty and the cursor at 0.
C7_RetainedLength ==
    [][DrainHandled
        => /\ Len(samples') = Min(overlap_samples, Len(samples))
           /\ (overlap_samples = 0 /\ reply'.ok)
                 => (samples' = <<>> /\ last_chunk_index' = 0)]_vars

C7_Witness ==
    /\ reply.op = "drain" /\ reply.ok
    /\ since_append = 1
    /\ overlap_samples > 0
    /\ Len(reply.chunk.src) > overlap_samples
    /\ Len(samples) = overlap_samples

\* C8: 0 <= last_chunk_index <= buffer.len() in every state, and right after a
\* successful drain (before any further append) the cursor is the length of
\* the retained suffix of the drained chunk.
C8_CursorWithinBuffer ==
    /\ 0 <= last_chunk_index
    /\ last_chunk_index <= Len(samples)
    /\ (reply.op = "drain" /\ reply.ok /\ since_append >= 1)
          => LET src == reply.chunk.src IN
             /\ last_chunk_index = Len(samples)
             /\ samples = SubSeq(src, Len(src) - Len(samples) + 1, Len(src))

C8_Witness ==
    /\ reply.op = "drain" /\ reply.ok
    /\ since_append = 1
    /\ last_chunk_index > 0
    /\ Len(reply.chunk.src) > last_chunk_index

\* C9 as stated: every successful drain after the first of a session leaves
\* the cursor strictly greater than the previous successful drain left it.
C9_CursorStrictlyIncreasing ==
    [][(DrainHandled /\ reply'.ok /\ chunk_log # <<>>)
        => last_chunk_index' > last_chunk_index]_vars

\* C9 amended: the cursor after a successful drain is never below its value
\* after the previous one, and is strictly greater unless it has reached
\* overlap_samples, where it stays (with overlap 0 it is always 0).
C9_CursorNonDecreasing ==
    [][(DrainHandled /\ reply'.ok /\ chunk_log # <<>>)
        => /\ last_chunk_index' >= last_chunk_index
           /\ \/ last_chunk_index' > last_chunk_index
              \/ last_chunk_index' = overlap_samples]_vars

C9_Witness ==
    /\ Len(chunk_log) >= 2
    /\ reply.op = "drain" /\ reply.ok
    /\ since_append = 1
    /\ overlap_samples > 0
    /\ last_chunk_index = overlap_samples

\* C10: the chunks of a session, in order, cover the appended stream without
\* gaps, each holds its samples in arrival order, and two consecutive chunks
\* share at most overlap_samples samples.
InArrivalOrder(src) == \A i, j \in 1..Len(src) : i < j => src[i] < src[j]

CoveredUpTo(k) ==
    \A id \in (th_base + 1)..chunk_log[k].upto :
        \E j \in 1..k : id \in Range(chunk_log[j].src)

Shared(k) == Range(chunk_log[k].src) \cap Range(chunk_log[k + 1].src)

C10_ChunksCoverStream ==
    \A k \in 1..Len(chunk_log) :
        /\ InArrivalOrder(chunk_log[k].src)
        /\ CoveredUpTo(k)
        /\ k < Len(chunk_log) => Cardinality(Shared(k)) <= overlap_samples

C10_Witness ==
    /\ Len(chunk_log) >= 2
    /\ overlap_samples > 0
    /\ Cardinality(Shared(1)) = overlap_samples
    /\ Len(chunk_log[1].src) > overlap_samples
    /\ chunk_log[2].upto = MaxSamples

\* C11: drain_chunk and stop_recording called while the recorder holds no
\* command sender (never started, or stopped) return the error "Not
\* recording", send no command and leave the recorder as it is.
C11_NoHandleIsError ==
    [][(command_tx = 0 /\ (ClientDrain \/ ClientStop))
        => /\ UNCHANGED recorderState
           /\ ~client_result'.ok
           /\ client_result'.err = "Not recording"]_vars

C11_Witness ==
    /\ client_result = ErrReply("stop", "Not recording")
    /\ th_exit = "stopped"
    /\ appended > th_base

\* C12: once the capture thread has handled Stop, and so once stop_recording
\* has returned Ok, the shared flag is false, the thread has left its loop with
\* no command pending, the handle is gone, no further sample is appended and
\* no further command is answered until a new thread is spawned, and a
\* stop_recording that follows returns an error.
StopReturnedOk == client_result = OkReply("stop", NoChunk)

C12_StopEndsSession ==
    /\ [](StopReturnedOk => th_exit = "stopped")
    /\ [](th_exit = "stopped"
            => /\ ~rec_is_recording
               /\ th_pc = "exited"
               /\ command_tx = 0
               /\ cmd_rx = <<>>)
    /\ [][(th_exit = "stopped" /\ th_gen' = th_gen)
            => /\ samples' = samples
               /\ appended' = appended
               /\ reply' \in {reply, NoReply}
               /\ ClientStop => client_result' = ErrReply("stop", "Not recording")]_vars

C12_Witness ==
    /\ client_result = ErrReply("stop", "Not recording")
    /\ th_exit = "stopped"
    /\ Len(chunk_log) >= 1
    /\ samples # <<>>
    /\ appended < MaxSamples

\* C13: within a session the buffer changes only by a callback, which
\* appends the delivered frames at its end and leaves the cursor alone, or by
\* a successful drain, which in one step takes a chunk that ends at the end of
\* the buffer and holds every sample past the cursor, keeps a tail of the
\* buffer, and sets the cursor to the length of what it kept; no step both
\* appends and drains.
IsSuffix(a, b) == Len(a) <= Len(b) /\ SubSeq(b, Len(b) - Len(a) + 1, Len(b)) = a

C13_AppendAndDrainAtomic ==
    [][th_gen' = th_gen
        => \/ /\ samples' = samples
              /\ last_chunk_index' = last_chunk_index
              /\ appended' = appended
           \/ /\ appended' > appended
              /\ samples' = samples \o [i \in 1..(appended' - appended) |-> appended + i]
              /\ last_chunk_index' = last_chunk_index
              /\ reply' = reply
           \/ /\ DrainHandled
              /\ reply'.ok
              /\ appended' = appended
              /\ IsSuffix(samples', samples)
              /\ IsSuffix(reply'.chunk.src, samples)
              /\ Len(reply'.chunk.src) >= Len(samples) - last_chunk_index
              /\ last_chunk_index' = Len(samples')]_vars

C13_Witness ==
    /\ Len(chunk_log) >= 2
    /\ cmd_rx = <<"drain">>
    /\ Len(samples) > last_chunk_index
    /\ last_chunk_index > 0
    /\ appended > chunk_log[Len(chunk_log)].upto

\* ========================================================= claims on Spec
TimerLive(s) == timer_pc[s] \notin {"none", "done"}

WorkerLive(s) == worker_pc[s] \notin {"none", "done"}

\* The teardown of a ChunkControl that a stop or cancel path took: once both
\* of its tasks are joined, every chunk drained for it has been received by
\* its consumer task and none is left in the queue or in the timer's hands.
TeardownDeliversChunks ==
    \A s \in Hotkeys :
        ctl[s] = "joined"
           => /\ drained[s] \subseteq received[s]
              /\ chunk_q[s] = <<>>
              /\ timer_chunk[s] = NoChunk
              /\ worker_chunk[s] = NoChunk

\* C1: when a stop path is about to collect the transcript of the session its
\* read of the flag found active, every chunk drained for that session, by
\* its timer task or as the final chunk of the stop path, has been received by
\* the session's consumer task, and none is left in its queue or in the hands
\* of its timer task.
C1_DrainedChunksReceived ==
    \A h \in Hotkeys :
        (hk_val[h] /\ hk_pc[h] = "collect" /\ hk_session[h] # 0)
           => /\ drained[hk_session[h]] \subseteq received[hk_session[h]]
              /\ chunk_q[hk_session[h]] = <<>>
              /\ timer_chunk[hk_session[h]] = NoChunk

\* C2: no ChunkControl is dropped, by a teardown, an overwrite or a
\* replacement by None, while its timer or consumer task is still running.
C2_ControlDroppedAfterTasksEnd ==
    \A s \in Hotkeys :
        ctl[s] \in {"joined", "dropped"} => (~TimerLive(s) /\ ~WorkerLive(s))

\* C3: at most one timer task and at most one consumer task are live at any
\* time.
C3_SingleTimerAndConsumer ==
    /\ Cardinality({s \in Hotkeys : TimerLive(s)}) <= 1
    /\ Cardinality({s \in Hotkeys : WorkerLive(s)}) <= 1

\* C5: when the capture thread spawned by a handler's start_recording fails
\* to start (no device, no configuration, unsupported format, stream not
\* built or not played), that handler aborts the session start: it ends with
\* the recording flag reset and has created no timer task, no consumer task
\* and no ChunkControl.
C5_StartFailureAborts ==
    \A h \in Hotkeys :
        (/\ hk_spawned[h] # 0
         /\ hk_spawned[h] = th_gen
         /\ th_pc = "exited"
         /\ th_exit \in StartupFailures
         /\ hk_pc[h] = "done")
           => /\ ~is_recording
              /\ ctl[h] = "unborn"
              /\ timer_pc[h] = "none"
              /\ worker_pc[h] = "none"

\* ================================================= claims on SpecSession
\* The reply the drain the timer task of s is waiting for has got.
TimerReply(s) == IF rec_call.who = <<"timer", s>> THEN ReplyResult ELSE NoReply

\* C14: a tick with the stop signal unset leads the timer task to one drain
\* request; a drain that returns a chunk leads to that chunk being appended to
\* the queue, a drain that fails, at the call or in the reply, leaves the queue
\* as it is; either way the task is back at its select, and it ends only with
\* the stop signal set.
C14_TickDrainsOnceAndStaysArmed ==
    [][\A s \in Hotkeys :
        /\ (timer_pc[s] = "select" /\ ~stop_val[s] /\ timer_pc'[s] # "select")
              => /\ timer_pc'[s] = "drain"
                 /\ cmd_rx' = cmd_rx
        /\ (timer_pc[s] = "drain" /\ timer_pc'[s] # "drain")
              => /\ chunk_q'[s] = chunk_q[s]
                 /\ \/ /\ timer_pc'[s] = "drain_wait"
                       /\ cmd_rx' = Append(cmd_rx, "drain")
                    \/ /\ timer_pc'[s] = "select"
                       /\ cmd_rx' = cmd_rx
        /\ (timer_pc[s] = "drain_wait" /\ timer_pc'[s] # "drain_wait")
              => /\ chunk_q'[s] = chunk_q[s]
                 /\ cmd_rx' = cmd_rx
                 /\ IF TimerReply(s).ok
                    THEN /\ timer_pc'[s] = "send"
                         /\ timer_chunk'[s] = TimerReply(s).chunk
                    ELSE timer_pc'[s] = "select"
        /\ (timer_pc[s] = "send" /\ timer_pc'[s] # "send")
              => /\ chunk_q'[s] = Append(chunk_q[s], timer_chunk[s])
                 /\ timer_pc'[s] = "select"
        /\ (timer_pc[s] # "done" /\ timer_pc'[s] = "done")
              => stop_val[s] /\ timer_pc[s] = "select"]_vars

C14_Witness ==
    \E s \in Hotkeys :
        /\ timer_pc[s] = "select"
        /\ ~stop_val[s]
        /\ since_append = 2
        /\ Cardinality(drained[s]) >= 1
        /\ drained[s] \subseteq received[s] \cup Range(chunk_q[s])

\* The texts of one session stand in the order of the last sample of their
\* chunks.
OrderedTexts(t) ==
    \A i, j \in 1..Len(t) : (i < j /\ t[i].sess = t[j].sess) => t[i].last < t[j].last

\* C16: chunks drained later end on later samples, and the texts a session has
\* in the transcript, and in what the stop path collected, stand in that
\* order; the text of the final chunk, when it is there, is the last one.
C16_TranscriptInDrainOrder ==
    /\ \A a, b \in 1..Len(chunk_log) :
          a < b => chunk_log[a].src[Len(chunk_log[a].src)]
                      < chunk_log[b].src[Len(chunk_log[b].src)]
    /\ OrderedTexts(chunk_texts)
    /\ \A h \in Hotkeys :
          /\ OrderedTexts(hk_texts[h])
          /\ (hk_final[h] # NoChunk
                /\ TextOf(hk_ctl[h], hk_final[h]) \in Range(hk_texts[h]))
               => hk_texts[h][Len(hk_texts[h])] = TextOf(hk_ctl[h], hk_final[h])

C16_Witness ==
    \E h \in Hotkeys :
        /\ hk_pc[h] = "done"
        /\ Len(hk_texts[h]) >= 2
        /\ hk_final[h] # NoChunk
        /\ hk_texts[h][Len(hk_texts[h])] = TextOf(hk_ctl[h], hk_final[h])
        /\ hk_texts[h][1].sess = hk_ctl[h]

\* A session that a stop or cancel handler has taken for teardown and whose
\* consumer task can still append to the transcript.
TornDownWithLiveConsumer(s) == ctl[s] = "taken" /\ WorkerLive(s)

\* C21: no stop handler collects the transcript, and no cancel handler clears
\* it, while the consumer task of a session that a handler is tearing down
\* can still append to it.  (The handler that acts has joined the consumer of
\* the session it took itself, so such a session is another handler's.)
C21_TranscriptSingleOwner ==
    [][/\ \A h \in Hotkeys :
             (hk_pc[h] = "collect" /\ hk_pc'[h] # "collect")
                => \A s \in Hotkeys : ~TornDownWithLiveConsumer(s)
       /\ \A c \in Escapes :
             (cn_pc[c] = "clear" /\ cn_pc'[c] # "clear")
                => \A s \in Hotkeys : ~TornDownWithLiveConsumer(s)]_vars

\* ============================================= claims on SpecSessionFair
\* C17: a timer task waiting in its select with the stop signal set takes no
\* step but the one that ends it, so it enters no drain; and once the signal
\* is set the task ends, whatever drain or send it was in, so that a handler
\* joining it goes on.
C17_CancellationObserved ==
    /\ [][\A s \in Hotkeys :
            (stop_val[s] /\ timer_pc[s] = "select")
               => timer_pc'[s] \in {"select", "done"}]_vars
    /\ \A s \in Hotkeys : stop_val[s] ~> TimerJoined(s)
    /\ \A h \in Hotkeys : (hk_pc[h] = "join_timer") ~> (hk_pc[h] # "join_timer")
    /\ \A c \in Escapes : (cn_pc[c] = "join_timer") ~> (cn_pc[c] # "join_timer")

C17_Witness ==
    \E s \in Hotkeys :
        /\ stop_val[s]
        /\ TimerJoined(s)
        /\ drained[s] # {}
        /\ \E h \in Hotkeys : hk_ctl[h] = s /\ hk_val[h] /\ hk_pc[h] = "final_drain"

\* C18: with the timer task ended and the ChunkControl's sender dropped, the
\* consumer ends; it ends only with the queue empty and no chunk in hand; and
\* a handler joining the consumer goes on.
C18_ConsumerTerminates ==
    /\ [](\A s \in Hotkeys :
            WorkerJoined(s) => (chunk_q[s] = <<>> /\ worker_chunk[s] = NoChunk))
    /\ \A s \in Hotkeys :
          (TimerJoined(s) /\ ~ctl_tx[s] /\ WorkerLive(s)) ~> WorkerJoined(s)
    /\ \A h \in Hotkeys : (hk_pc[h] = "join_worker") ~> (hk_pc[h] # "join_worker")
    /\ \A c \in Escapes : (cn_pc[c] = "join_worker") ~> (cn_pc[c] # "join_worker")

C18_Witness ==
    \E s \in Hotkeys :
        /\ WorkerJoined(s)
        /\ TimerJoined(s)
        /\ ~ctl_tx[s]
        /\ Cardinality(received[s]) >= 2
        /\ \E h \in Hotkeys : hk_ctl[h] = s /\ hk_val[h] /\ hk_pc[h] = "join_worker"

\* C29: resampling the capture buffer, or the samples of a drained chunk,
\* from a rate to the same rate gives them back sample for sample, and a chunk
\* drained at the 16000 Hz target rate encodes exactly the samples that were
\* drained.
C29_SameRateResampleUnchanged ==
    /\ \A r \in SampleRates : resample(samples, r, r) = samples
    /\ \A c \in {reply.chunk, client_result.chunk} :
          /\ \A r \in SampleRates : resample(c.src, r, r) = c.src
          /\ c.rate = TARGET_RATE => WavSamples(c) = c.src

C29_Witness ==
    /\ samples # <<>>
    /\ client_result.op = "drain"
    /\ client_result.ok
    /\ client_result.chunk.rate = TARGET_RATE
    /\ Len(client_result.chunk.src) >= 3
    /\ chunk_log # <<>>
    /\ client_result.chunk.src = chunk_log[Len(chunk_log)].src

\* ================================================ claims on SpecSession
\* The stop path of handler h returns (lib.rs:463 or after lib.rs:466-471).
StopPathEnds(h) == hk_val[h] /\ hk_pc[h] # "done" /\ hk_pc'[h] = "done"

Held(s) ==
    received[s] \cup Range(chunk_q[s]) \cup {timer_chunk[s]}
        \cup {hk_final[h] : h \in {g \in Hotkeys :
                 hk_ctl[g] = s /\ hk_pc[g] \in {"stop_rec", "stop_wait", "send_final"}}}

\* C15: the queue of a session never holds more than 4 chunks; a timer task
\* whose send finds it full keeps its chunk and stays in the send while the
\* queue changes only by the consumer taking its head; and every chunk
\* drained is received, queued or still held by its sender.
C15_QueueBoundedAndBlocking ==
    /\ [](\A s \in Hotkeys : Len(chunk_q[s]) <= 4 /\ drained[s] \subseteq Held(s))
    /\ [][\A s \in Hotkeys :
            (timer_pc[s] = "send" /\ Len(chunk_q[s]) = 4)
               => /\ timer_pc'[s] = "send"
                  /\ timer_chunk'[s] = timer_chunk[s]
                  /\ chunk_q'[s] \in {chunk_q[s], Tail(chunk_q[s])}]_vars

C15_Witness ==
    \E s \in Hotkeys :
        /\ Len(chunk_q[s]) = 4
        /\ timer_pc[s] = "send"
        /\ timer_chunk[s] \notin Range(chunk_q[s])
        /\ worker_pc[s] = "recv"

\* C19: the step of a failed transcription changes nothing but the consumer's
\* own position: it appends nothing, goes back to receive the next chunk, and
\* leaves the timer task, the recording flag, the stop signal and the capture
\* thread as they were.  The consumer ends only on a closed and empty queue,
\* the timer only after the stop signal, and the signal and the flag change
\* only in steps of a hotkey or cancel handler.
C19_FailedChunkSkipped ==
    /\ [][\A s \in Hotkeys :
            WorkerTranscribed(s, "error")
               => /\ chunk_texts' = chunk_texts
                  /\ worker_pc'[s] = "recv"
                  /\ chunk_q' = chunk_q
                  /\ timer_pc' = timer_pc
                  /\ is_recording' = is_recording
                  /\ stop_val' = stop_val
                  /\ capVars' = capVars]_vars
    /\ [][\A s \in Hotkeys :
            (~WorkerJoined(s) /\ WorkerJoined(s)')
               => (worker_pc[s] = "recv" /\ chunk_q[s] = <<>> /\ ~ctl_tx[s]
                     /\ TimerJoined(s))]_vars
    /\ [](\A s \in Hotkeys : TimerJoined(s) => stop_val[s])
    /\ [][(stop_val' # stop_val \/ is_recording' # is_recording)
             => (hk_pc' # hk_pc \/ cn_pc' # cn_pc)]_vars

\* A session still running in which the consumer has a text for a chunk it
\* received after one for which it has none.
C19_Witness ==
    \E s \in Hotkeys :
        /\ is_recording
        /\ ~stop_val[s]
        /\ TimerLive(s)
        /\ worker_pc[s] = "recv"
        /\ th_pc = "running"
        /\ \E c1, c2 \in received[s] :
              /\ TextOf(s, c1).last < TextOf(s, c2).last
              /\ TextOf(s, c1) \notin Range(chunk_texts)
              /\ TextOf(s, c2) \in Range(chunk_texts)

\* ===================================================== claims on SpecText
Max(S) == CHOOSE x \in S : \A y \in S : x >= y

\* The k for which the last k words of existing_words and the first k words
\* of next_words are equal after normalization.
Overlaps(existing_words, next_words) ==
    {k \in 1..Min(Min(Len(existing_words), Len(next_words)),
                  CHUNK_MAX_OVERLAP_WORDS) :
        \A i \in 1..k :
            normalize_word(existing_words[Len(existing_words) - k + i])
                = normalize_word(next_words[i])}

\* C22: with k the largest overlap of at most 12 words (0 when there is
\* none), the words of merge_with_overlap(existing, next) are the words of
\* existing followed by the words of next beyond position k; when both have
\* words the result is existing (trimmed) and, after one space, those words of
\* next, single-spaced.  "the cat sat" + "cat sat on mat" gives "the cat sat
\* on mat" and "hello world" + "foo bar" gives "hello world foo bar".
C22_MergeDropsLargestOverlap ==
    text_fn = "merge_with_overlap" =>
        LET existing == text_in.fragments[1]
            next == text_in.fragments[2]
            existing_words == split_whitespace(existing)
            next_words == split_whitespace(next)
            found == Overlaps(existing_words, next_words)
            k == IF found = {} THEN 0 ELSE Max(found)
            beyond == SubSeq(next_words, k + 1, Len(next_words))
        IN  /\ split_whitespace(text_ret) = existing_words \o beyond
            /\ (existing_words # <<>> /\ next_words # <<>>)
                  => text_ret = IF beyond = <<>> THEN trim(existing)
                                ELSE trim(existing) \o <<" ">> \o Sentence(beyond)
            /\ (existing = TheCatSat /\ next = CatSatOnMat)
                  => text_ret = TheCatSatOnMat
            /\ (existing = HelloWorld /\ next = FooBar)
                  => text_ret = HelloWorldFooBar

C22_Witness ==
    /\ text_fn = "merge_with_overlap"
    /\ text_in.fragments = <<TheCatSat, CatSatOnMat>>
    /\ text_ret = TheCatSatOnMat

\* The words of text without the last n of them (none when it has fewer).
WithoutTrailing(text, n) ==
    LET words == split_whitespace(text)
    IN  Sentence(SubSeq(words, 1, saturating_sub(Len(words), n)))

\* The fragments of chunks that hold text, trimmed of white space.
RECURSIVE NonEmptyFragments(_)
NonEmptyFragments(chunks) ==
    IF chunks = <<>> THEN <<>>
    ELSE IF trim(Head(chunks)) = <<>> THEN NonEmptyFragments(Tail(chunks))
    ELSE <<trim(Head(chunks))>> \o NonEmptyFragments(Tail(chunks))

\* parts merged one after the other into an accumulator; an empty part is
\* passed over.
RECURSIVE MergeAll(_, _)
MergeAll(parts, combined) ==
    IF parts = <<>> THEN combined
    ELSE MergeAll(Tail(parts),
                  IF Head(parts) = <<>> THEN combined
                  ELSE merge_with_overlap(combined, Head(parts)))

\* The consolidation of chunks when every fragment that holds text but the
\* last is cut by Cut before merging.
ConsolidatedWith(chunks, Cut(_)) ==
    LET frags == NonEmptyFragments(chunks)
        parts == [i \in 1..Len(frags) |->
                    IF i = Len(frags) THEN frags[i] ELSE Cut(frags[i])]
    IN  collapse_duplicate_words(
            collapse_repeated_phrases(MergeAll(parts, <<>>)))

CutThreeAlways(text) == WithoutTrailing(text, 3)

CutThreeIfLonger(text) ==
    IF Len(split_whitespace(text)) > 3 THEN WithoutTrailing(text, 3) ELSE text

\* C23 as stated: every fragment that holds text, except the last one that
\* does, loses its trailing 3 tokens before merging, whatever its length, and
\* the last is merged whole.
C23_TrailingThreeDroppedAlways ==
    /\ text_fn = "consolidate_chunk_texts"
          => text_ret = ConsolidatedWith(text_in.fragments, CutThreeAlways)
    /\ text_fn = "trim_trailing_words"
          => split_whitespace(text_ret)
                = split_whitespace(CutThreeAlways(text_in.fragments[1]))

\* C23, amended: every fragment that holds text, except the last one that
\* does, loses its trailing 3 tokens before merging when it has more than 3
\* tokens and is merged whole when it has 3 or fewer; the last is merged
\* whole.
C23_TrailingThreeDroppedIfLonger ==
    /\ text_fn = "consolidate_chunk_texts"
          => text_ret = ConsolidatedWith(text_in.fragments, CutThreeIfLonger)
    /\ text_fn = "trim_trailing_words"
          => split_whitespace(text_ret)
                = split_whitespace(CutThreeIfLonger(text_in.fragments[1]))

\* "a b" is merged whole, "c d e f" loses "d e f", and the last fragment "d"
\* is merged whole.
C23_Witness ==
    /\ text_fn = "consolidate_chunk_texts"
    /\ text_in.fragments = <<Window(1, 2), Window(3, 4), Window(4, 1)>>
    /\ text_ret = Window(1, 4)

\* The words of a text, each normalized by Norm.
Normalized(words, Norm(_)) == [k \in 1..Len(words) |-> Norm(words[k])]

\* The n entries of norms from position i on (0-based) and the n entries from
\* position j on are equal.
SamePhrase(norms, i, j, n) ==
    \A k \in 1..n : norms[i + k] = norms[j + k]

\* The scan the claim describes, from position i on, over words whose
\* normalized forms are norms: the longest phrase of 2 to bound words at i
\* that is immediately followed by a repeat of itself is kept once and all of
\* its repeats are passed over; where there is none the word at i is kept.
RECURSIVE CollapsedFrom(_, _, _, _)
CollapsedFrom(words, norms, i, bound) ==
    IF i >= Len(words) THEN <<>>
    ELSE
      LET lengths == {n \in 2..bound :
                        i + 2 * n <= Len(words)
                           /\ SamePhrase(norms, i, i + n, n)}
      IN  IF lengths = {}
          THEN <<words[i + 1]>> \o CollapsedFrom(words, norms, i + 1, bound)
          ELSE LET n == Max(lengths)
                   repeats == Max({r \in 1..(Len(words) \div n) :
                                     /\ i + (r + 1) * n <= Len(words)
                                     /\ \A q \in 1..r :
                                           SamePhrase(norms, i, i + q * n, n)})
               IN  SubSeq(words, i + 1, i + n)
                      \o CollapsedFrom(words, norms, i + (repeats + 1) * n, bound)

\* The words of text after that scan.
Collapsed(text, bound, Norm(_)) ==
    LET words == split_whitespace(text)
    IN  CollapsedFrom(words, Normalized(words, Norm), 0, bound)

\* C24: on the live-session path (bound 4) and on the post-processing path
\* (bound 8) the words collapse_repeated_phrases returns are those of the scan
\* that keeps one copy of a repeated phrase and passes over all of its
\* repeats; "i need you i need you now" gives "i need you now".
C24_RepeatedPhrasesCollapsed ==
    /\ text_fn = "collapse_repeated_phrases"
          => /\ split_whitespace(text_ret)
                   = Collapsed(text_in.fragments[1], 4, normalize_word)
             /\ text_in.fragments[1] = INeedYouINeedYouNow
                   => text_ret = INeedYouNow
    /\ text_fn = "postprocessing::collapse_repeated_phrases"
          => /\ split_whitespace(text_ret)
                   = Collapsed(text_in.fragments[1], 8,
                                postprocessing_normalize_word)
             /\ text_in.fragments[1] = INeedYouINeedYouNow
                   => text_ret = INeedYouNow

\* The post-processing path alone does what C24 says.
PostprocessingPhrasesCollapsed ==
    text_fn = "postprocessing::collapse_repeated_phrases"
       => split_whitespace(text_ret)
             = Collapsed(text_in.fragments[1], 8, postprocessing_normalize_word)

\* The words of a sequence whose normalized form differs from that of the word
\* right before them, the first word included.
FirstOfRuns(words) ==
    LET keep == {k \in 1..Len(words) :
                    k = 1 \/ normalize_word(words[k]) # normalize_word(words[k - 1])}
        Kept[k \in 0..Len(words)] ==
            IF k = 0 THEN <<>>
            ELSE IF k \in keep THEN Append(Kept[k - 1], words[k])
            ELSE Kept[k - 1]
    IN  Kept[Len(words)]

\* C25: collapse_duplicate_words returns its input with each run of adjacent
\* words of equal normalized form reduced to the first word of the run, so no
\* two adjacent words of the output normalize alike; "the the cat cat sat"
\* gives "the cat sat".
C25_DuplicateWordsCollapsed ==
    text_fn = "collapse_duplicate_words"
       => LET out == split_whitespace(text_ret)
          IN  /\ text_ret = join(FirstOfRuns(split_whitespace(text_in.fragments[1])),
                                 <<" ">>)
              /\ \A k \in 1..(Len(out) - 1) :
                    normalize_word(out[k]) # normalize_word(out[k + 1])
              /\ text_in.fragments[1] = TheTheCatCatSat
                    => text_ret = TheCatSat

\* A text with a run of three words that differ in case and punctuation only
\* has been collapsed.
C25_Witness ==
    /\ text_fn = "collapse_duplicate_words"
    /\ text_in.fragments[1]
          = Sentence(<<<<"a">>, <<"A", ".">>, <<"a">>, <<"b">>, <<"a">>>>)
    /\ text_ret = Sentence(<<<<"a">>, <<"b">>, <<"a">>>>)

\* How many times the words of clause stand next to each other in words.
Occurrences(clause, words) ==
    Cardinality({i \in 0..(Len(words) - Len(clause)) :
                    SubSeq(words, i + 1, i + Len(clause)) = clause})

\* The result of consolidating WentToTheStore has been returned.
WentToTheStoreConsolidated ==
    text_fn = "consolidate_chunk_texts" /\ text_in.fragments = WentToTheStore

\* C26 as stated: consolidating "um I went to the", "to the store and
\* bought", "bought milk" yields a sentence with each of the clauses went,
\* to the, store and, bought, milk exactly once and no word twice in a row.
C26_EveryClauseOnce ==
    WentToTheStoreConsolidated
       => LET out == split_whitespace(text_ret)
          IN  /\ \A clause \in {<<<<"w", "e", "n", "t">>>>,
                                <<<<"t", "o">>, <<"t", "h", "e">>>>,
                                <<<<"s", "t", "o", "r", "e">>, <<"a", "n", "d">>>>,
                                <<<<"b", "o", "u", "g", "h", "t">>>>,
                                <<<<"m", "i", "l", "k">>>>} :
                    Occurrences(clause, out) = 1
              /\ \A k \in 1..(Len(out) - 1) : out[k] # out[k + 1]

\* C26: consolidating those fragments yields "um I to the bought milk": to
\* the, bought and milk stand in it exactly once and no word twice in a row,
\* and went and store and, which the trailing trim dropped, are not in it.
C26_TrimmedClausesDropped ==
    WentToTheStoreConsolidated
       => LET out == split_whitespace(text_ret)
          IN  /\ text_ret = Sentence(<<<<"u", "m">>, <<"I">>, <<"t", "o">>, <<"t", "h", "e">>, <<"b", "o", "u", "g", "h", "t">>, <<"m", "i", "l", "k">>>>)
              /\ \A clause \in {<<<<"t", "o">>, <<"t", "h", "e">>>>,
                                <<<<"b", "o", "u", "g", "h", "t">>>>,
                                <<<<"m", "i", "l", "k">>>>} :
                    Occurrences(clause, out) = 1
              /\ \A clause \in {<<<<"w", "e", "n", "t">>>>,
                                <<<<"s", "t", "o", "r", "e">>, <<"a", "n", "d">>>>} :
                    Occurrences(clause, out) = 0
              /\ \A k \in 1..(Len(out) - 1) : out[k] # out[k + 1]

C26_Witness ==
    WentToTheStoreConsolidated /\ text_ret # <<>>

\* A fragment contains text: it has a char that is not whitespace.
ContainsText(fragment) ==
    \E k \in 1..Len(fragment) : ~is_whitespace(fragment[k])

\* C27: for every list of fragments consolidate_chunk_texts returns a string,
\* and the string is empty exactly when no fragment of the list contains text.
C27_EmptyIffNoText ==
    text_fn = "consolidate_chunk_texts"
       => /\ text_ret \in Seq(STRING)
          /\ text_ret = <<>>
                <=> \A i \in 1..Len(text_in.fragments) :
                       ~ContainsText(text_in.fragments[i])

\* A list of three fragments of which only the middle one contains text, and
\* no more words than the trailing trim drops, has been consolidated.
C27_Witness ==
    /\ text_fn = "consolidate_chunk_texts"
    /\ text_in.fragments = <<<<" ">>, Window(1, 3), <<>>>>
    /\ text_ret = Window(1, 3)

\* The empty list and a list of whitespace only have been consolidated.
C27_WitnessEmpty ==
    /\ text_fn = "consolidate_chunk_texts"
    /\ text_in.fragments \in {<<>>, <<<<" ">>, <<>>>>}

\* The char at position k of text (1-based) starts a sentence: it is
\* alphabetic, and no alphabetic char stands between it and the start of the
\* text or the '.', '!' or '?' before it.
StartsSentence(text, k) ==
    /\ is_alphabetic(text[k])
    /\ \E p \in 0..(k - 1) :
          /\ p = 0 \/ text[p] \in {".", "!", "?"}
          /\ \A q \in (p + 1)..(k - 1) : ~is_alphabetic(text[q])

\* The text with its first k chars replaced: a char that starts a sentence by
\* its upper case, any other char by itself.
Capitalized(text) ==
    LET Upto[k \in 0..Len(text)] ==
            IF k = 0 THEN <<>>
            ELSE Upto[k - 1] \o (IF StartsSentence(text, k)
                                 THEN char_to_uppercase(text[k])
                                 ELSE <<text[k]>>)
    IN  Upto[Len(text)]

\* C30: capitalize_sentences upper-cases the first alphabetic char of the text
\* and the first alphabetic char after each '.', '!' or '?', and leaves every
\* other char as it is; the empty text gives the empty text.
C30_SentencesCapitalized ==
    text_fn = "capitalize_sentences"
       => /\ text_ret = Capitalized(text_in.fragments[1])
          /\ text_in.fragments[1] = <<>> => text_ret = <<>>
          /\ text_in.fragments[1] = HelloHowAreYou
                => text_ret = <<"H", "e", "l", "l", "o", ".", " ", "H", "o", "w", " ", "a", "r", "e", " ", "y", "o", "u", "?">>
          /\ text_in.fragments[1] = FirstSecondThird
                => text_ret = <<"F", "i", "r", "s", "t", ".", " ", "S", "e", "c", "o", "n", "d", "!", " ", "T", "h", "i", "r", "d", "?">>

\* A text of two sentences has been capitalized: the first starts after a
\* digit, the second with a letter whose upper case is two chars.
C30_Witness ==
    /\ text_fn = "capitalize_sentences"
    /\ text_in.fragments[1] = <<"1", "a", ".", "sharp-s">>
    /\ text_ret = <<"1", "A", ".", "S", "S">>

\* The five steps, each leaving the text as it is when the settings disable it;
\* the custom replacements are disabled by an empty list of rules.
FillerRemoval(text, settings) ==
    IF settings.remove_filler_words
    THEN remove_filler_words(text, settings.filler_words) ELSE text

CustomReplacements(text, settings) ==
    IF settings.custom_replacements = <<>>
    THEN text ELSE apply_replacements(text, settings.custom_replacements)

PunctuationRemoval(text, settings) ==
    IF settings.remove_punctuation THEN remove_punctuation(text) ELSE text

Dedupe(text, settings) ==
    IF settings.dedupe_repeated_phrases THEN dedupe_repeated_phrases(text)
    ELSE text

SentenceCapitalization(text, settings) ==
    IF settings.auto_capitalize THEN capitalize_sentences(text) ELSE text

\* No step is enabled.
AllDisabled(settings) ==
    /\ ~settings.remove_filler_words
    /\ settings.custom_replacements = <<>>
    /\ ~settings.remove_punctuation
    /\ ~settings.dedupe_repeated_phrases
    /\ ~settings.auto_capitalize

\* C28: apply_postprocessing returns what filler removal, custom replacements,
\* punctuation removal, dedupe and sentence capitalization give when applied
\* in this order, each to the result of the one before it and each leaving
\* the text as it is when disabled; the empty text gives the empty text.
C28_StepsInFixedOrder ==
    text_fn = "apply_postprocessing"
       => LET text == text_in.fragments[1]
              st == text_in.settings
          IN  /\ text_ret
                    = SentenceCapitalization(
                          Dedupe(
                              PunctuationRemoval(
                                  CustomReplacements(
                                      FillerRemoval(text, st), st), st), st), st)
              /\ AllDisabled(st) => text_ret = text
              /\ text = <<>> => text_ret = <<>>

\* "um sharp-s ss" has gone through all five steps: the filler is gone, the
\* two words left differ when the dedupe sees them, and the capitalization
\* then makes the first "SS".
C28_Witness ==
    /\ text_fn = "apply_postprocessing"
    /\ text_in.fragments[1] = Sentence(<<<<"u", "m">>, <<"sharp-s">>, <<"s", "s">>>>)
    /\ ~AllDisabled(text_in.settings)
    /\ text_in.settings.remove_filler_words
    /\ text_in.settings.remove_punctuation
    /\ text_in.settings.dedupe_repeated_phrases
    /\ text_in.settings.auto_capitalize
    /\ text_ret = <<"S", "S", " ", "s", "s">>

\* floor(a / b) for naturals a and b > 0, stated without division: the
\* largest m with m * b <= a.
FloorOfQuotient(a, b) == CHOOSE m \in 0..a : m * b <= a /\ (m + 1) * b > a

\* C32: resample(samples, from, to) returns floor(len / ratio) samples with
\* ratio = from / to, and output sample i is input sample floor(i * ratio) for
\* every i below the output length; for an integer ratio r that is len div r
\* samples, the i-th being input sample i * r.
C32_NearestNeighbourDecimation ==
    text_fn = "resample"
       => LET in == text_in.samples
              from == text_in.from_rate
              to == text_in.to_rate
          IN  /\ Len(text_ret) = FloorOfQuotient(Len(in) * to, from)
              /\ \A i \in 0..(Len(text_ret) - 1) :
                    text_ret[i + 1] = in[FloorOfQuotient(i * from, to) + 1]
              /\ from % to = 0
                    => /\ Len(text_ret) = Len(in) \div (from \div to)
                       /\ \A i \in 0..(Len(text_ret) - 1) :
                             text_ret[i + 1] = in[i * (from \div to) + 1]

\* Ten samples at 48000 Hz have been resampled to the 1st, 4th and 7th.
C32_Witness ==
    /\ text_fn = "resample"
    /\ text_in.from_rate = 48000
    /\ Len(text_in.samples) = 10
    /\ text_ret = <<1, 4, 7>>

\* ================================================= claims on SpecCapture
\* C33: whenever the recorder's recording flag is true a capture thread
\* exists that will receive the commands sent on the command channel (it is
\* starting or in its command loop); so a start_recording after a session
\* whose thread exited during start-up spawns a new thread.
C33_FlagMeansLiveThread ==
    rec_is_recording => th_pc \in {"starting", "running"}

\* The session whose thread exited during start-up has been stopped and
\* start_recording has been called again: it returned Ok as already recording
\* and spawned nothing.
DeadRecorder ==
    /\ th_exit \in StartupFailures
    /\ th_gen = 1
    /\ command_tx = 0
    /\ early_ok
    /\ client_result = OkReply("start", NoChunk)

\* C34: the drain cursor is at most overlap_samples in every reachable state,
\* so the chunk_start computed by a drain is always 0 and every successful
\* drain returns the entire current buffer.
C34_DrainReturnsWholeBuffer ==
    /\ [](last_chunk_index <= overlap_samples)
    /\ [][(DrainHandled /\ reply'.ok)
            => /\ ChunkStart(last_chunk_index, overlap_samples) = 0
               /\ reply'.chunk.src = samples]_vars

\* A second successful drain of a session with overlap: the cursor stood at
\* overlap_samples, and the chunk begins with the tail the first drain kept.
C34_Witness ==
    /\ Len(chunk_log) = 2
    /\ reply.op = "drain" /\ reply.ok
    /\ since_append = 1
    /\ overlap_samples = 1
    /\ last_chunk_index = overlap_samples
    /\ Len(chunk_log[2].src) >= 2
    /\ chunk_log[2].src[1] = chunk_log[1].src[Len(chunk_log[1].src)]
    /\ reply.chunk.src = chunk_log[2].src

\* C36: each capture session starts with an empty buffer and cursor 0, and
\* after stop_recording then start_recording no sample of the earlier session,
\* the overlap tail it kept included, appears in any chunk of the later one.
C36_SessionsShareNoSample ==
    /\ (th_pc \in {"starting", "running"} /\ appended = th_base)
          => (samples = <<>> /\ last_chunk_index = 0)
    /\ \A id \in Range(samples) : id > th_base
    /\ \A k \in 1..Len(chunk_log) :
          \A id \in Range(chunk_log[k].src) : id > th_base
    /\ (reply.op = "drain" /\ reply.ok)
          => \A id \in Range(reply.chunk.src) : id > th_base

\* The second session, started after samples of the first had arrived, has
\* drained a chunk with overlap: it begins with the session's first sample.
C36_Witness ==
    /\ th_gen = 2
    /\ th_base >= 2
    /\ overlap_samples > 0
    /\ reply.op = "drain" /\ reply.ok
    /\ chunk_log # <<>>
    /\ chunk_log[1].src[1] = th_base + 1
    /\ reply.chunk.src = chunk_log[Len(chunk_log)].src

\* ==================================================== claims on SpecText
\* Some phrase of 2 to bound entries of norms is immediately followed by a
\* repeat of itself.
HasRepeatedPhrase(norms, bound) ==
    \E n \in 2..bound : \E i \in 0..(Len(norms) - 2 * n) :
        SamePhrase(norms, i, i + n, n)

\* Two neighbours in norms are equal.
HasAdjacentDuplicate(norms) ==
    \E k \in 1..(Len(norms) - 1) : norms[k] = norms[k + 1]

\* "a b b a b", "a b a b" and "a b".
ABBAB == Sentence(<<<<"a">>, <<"b">>, <<"b">>, <<"a">>, <<"b">>>>)

ABAB == Sentence(<<<<"a">>, <<"b">>, <<"a">>, <<"b">>>>)

AB == Sentence(<<<<"a">>, <<"b">>>>)

\* C38 as stated: the dedupe pass is idempotent on the live-session path
\* (bound 4) and on the post-processing path (bound 8): its output has no
\* phrase of 2 to bound words immediately followed by a repeat of itself and
\* no adjacent equal-normalized words, and a second pass leaves it unchanged.
C38_DedupeIdempotent ==
    /\ text_fn = "dedupe_pass"
          => LET norms == Normalized(split_whitespace(text_ret), normalize_word)
             IN  /\ ~HasRepeatedPhrase(norms, CHUNK_MAX_REPEAT_PHRASE_WORDS)
                 /\ ~HasAdjacentDuplicate(norms)
                 /\ dedupe_pass(text_ret) = text_ret
    /\ text_fn = "dedupe_repeated_phrases"
          => LET norms == Normalized(split_whitespace(text_ret),
                                     postprocessing_normalize_word)
             IN  /\ ~HasRepeatedPhrase(norms, max_phrase_len)
                 /\ ~HasAdjacentDuplicate(norms)
                 /\ dedupe_repeated_phrases(text_ret) = text_ret

\* C38 amended: on both paths the output of the dedupe pass has no adjacent
\* equal-normalized words, so collapsing duplicate words again changes
\* nothing; it may still hold a repeated phrase, and the pass is not
\* idempotent: "a b b a b" gives "a b a b", and a second pass gives "a b".
C38_AdjacentWordsDistinct ==
    /\ text_fn = "dedupe_pass"
          => /\ ~HasAdjacentDuplicate(
                    Normalized(split_whitespace(text_ret), normalize_word))
             /\ collapse_duplicate_words(text_ret) = text_ret
             /\ text_in.fragments[1] = ABBAB
                   => (text_ret = ABAB /\ dedupe_pass(text_ret) = AB)
    /\ text_fn = "dedupe_repeated_phrases"
          => /\ ~HasAdjacentDuplicate(
                    Normalized(split_whitespace(text_ret),
                               postprocessing_normalize_word))
             /\ postprocessing_collapse_duplicate_words(text_ret) = text_ret
             /\ text_in.fragments[1] = ABBAB
                   => (text_ret = ABAB /\ dedupe_repeated_phrases(text_ret) = AB)

\* The post-processing pass has returned "a b a b" for "a b b a b": the
\* duplicate-word collapse brought two copies of "a b" together.
C38_Witness ==
    /\ text_fn = "dedupe_repeated_phrases"
    /\ text_in.fragments[1] = ABBAB
    /\ text_ret = ABAB
    /\ HasRepeatedPhrase(
           Normalized(split_whitespace(text_ret), postprocessing_normalize_word),
           max_phrase_len)

\* ============================================ claims on SpecCaptureFair
\* C37: every drain_chunk and stop_recording call that waits for a reply
\* eventually returns a result or an error, also when the capture thread
\* exits while the command is queued or never finishes starting.
C37_CallsReturn ==
    (rec_call # NoCall) ~> (rec_call = NoCall /\ client_result # NoReply)

\* A drain_chunk sent to a thread that was still starting has returned an
\* error: the thread failed to start and dropped the queued command.
C37_Witness ==
    /\ th_exit \in StartupFailures
    /\ rec_call = NoCall
    /\ client_result = ErrReply("drain", "Failed to receive audio chunk")

\* ============================================= claims on SpecDownsample
\* C35: every chunk placed on the delivery queue, by the timer task or as the
\* final chunk of the stop path, encodes at least one audio sample; a
\* header-only encoding is never forwarded for transcription.
C35_QueuedChunksHoldAudio ==
    \A s \in Hotkeys : \A k \in 1..Len(chunk_q[s]) :
        WavSamples(chunk_q[s][k]) # <<>>

\* =================================================== claims on SpecLock
\* C31 as stated: the command handler holds the buffer lock only while it
\* computes the window, copies the slice and truncates the buffer, and has
\* released it before it resamples, encodes and sends the reply; the callback
\* holds the lock only while appending, and never waits for a command reply:
\* an invocation that began ends whatever the caller does.
C31_LockOnlyWhileWindowOrAppend ==
    /\ [](buffer_lock = "handler" => h_pc \in {"window", "drop"})
    /\ [](h_pc = "encode" => buffer_lock # "handler")
    /\ [][DrainHandled => buffer_lock # "handler"]_vars
    /\ [](buffer_lock = "callback" => cb_pc = "push")
    /\ (cb_pc # "idle") ~> (cb_pc = "idle")

\* C31 amended: the handler holds the lock only while it computes the window,
\* copies the slice and truncates the buffer, or, with nothing new, until it
\* has sent the "No new audio" reply; it has released it before it resamples,
\* encodes and sends a chunk.  The callback holds the lock while appending
\* and until it has sent the loudness, and never waits for a command reply.
C31_LockReleasedBeforeEncoding ==
    /\ [](buffer_lock = "handler" => h_pc \in {"window", "no_audio", "drop"})
    /\ [](h_pc = "encode" => buffer_lock # "handler")
    /\ [][(DrainHandled /\ reply'.ok) => buffer_lock # "handler"]_vars
    /\ [][(DrainHandled /\ ~reply'.ok)
            => (buffer_lock = "handler" /\ buffer_lock' = "free")]_vars
    /\ [](buffer_lock = "callback" => cb_pc \in {"push", "level"})
    /\ (cb_pc # "idle") ~> (cb_pc = "idle")

\* The callback waits in lock() while the handler, having copied a chunk and
\* truncated the buffer, still holds the mutex.
C31_Witness ==
    /\ cb_pc = "lock"
    /\ buffer_lock = "handler"
    /\ h_pc = "drop"
    /\ h_chunk # NoChunk
    /\ rec_call.op = "drain"

====
